---------------------------- MODULE Spec2Model ----------------------------
(***************************************************************************)
(* Co-DETECT annotation service (src/annotation_fastapi).                  *)
(*                                                                         *)
(* The parts of the program are modelled each with its own specification   *)
(* over the shared variables:                                              *)
(*   SpecMapper  the example <-> uid tables and the topical model files    *)
(*               kept by process_annotation_json and                       *)
(*               process_annotation_one_json (services.py);                *)
(*   SpecDamaged the same handlers started over persisted files of which   *)
(*               one of a pair is missing;                                 *)
(*   SpecClient  create_answers_async and the retry loop of call_openai /  *)
(*               call_openai_annotation (utils.py);                        *)
(*   SpecParser  parse_json_output (utils.py);                             *)
(*   SpecMerge   parse_merge (utils.py);                                   *)
(*   SpecSynth   synthesize_guideline_improvements (services.py);          *)
(*   SpecSizes   the cluster count and size bounds of a new semantic model *)
(*               (services.py);                                            *)
(*   SpecStore   the model files under the handler coroutines of the one   *)
(*               event loop (services.py).                                 *)
(*   SpecCalls   the example <-> uid tables under two handler coroutines   *)
(*               of the one event loop (services.py).                      *)
(* A specification leaves the variables of the other parts unchanged.      *)
(***************************************************************************)
EXTENDS Integers, Sequences, FiniteSets, TLC

VARIABLES
    \* ---- identity mapper and model files (services.py) ----
    uid2example,      \* task -> file uid2example_{task}.json
    example2uid,      \* task -> file example2uid_{task}.json
    pca_model,        \* task -> file models/pca_model_{task}.pkl
    kmeans_model,     \* task -> file models/kmeans_model_{task}.pkl
    uuid_count,       \* number of uuid.uuid4() values drawn so far
    ret,              \* what the last handler call did and returned
    \* ---- batched completion client (utils.py) ----
    cache,            \* the diskcache: (model, prompt) -> stored completion
    model,            \* the model name of the top-level call
    messages,         \* the prompts of the top-level call
    pc,               \* where the call stands
    batch_index,      \* i of line 404: index of the batch being processed (from 0)
    all_answers,      \* create_answers_async: answers collected in this pass
    error_batches,    \* create_answers_async: failed batch indices of this pass
    mapping_list,     \* locals of the current batch (lines 405-407)
    cache_miss_msgs,
    cache_hit_responses,
    arrived,          \* requests of the gather that have completed, in arrival order
    responses,        \* what the top-level call returned
    retried,          \* the top-level call has started a further pass
    hit_seen,         \* this pass answered a prompt from the cache
    reordered,        \* this pass saw a completion arrive before an earlier request's
    succeeded,        \* indices of the batches that have succeeded in some pass of the call
    \* ---- output parser (utils.py) ----
    response,         \* the LLM response text handed to parse_json_output
    parsed,           \* what parse_json_output did with it
    \* ---- merge-suggestion parser (utils.py) ----
    merge_groups,     \* the merge groups the response was written from
    merge_response,   \* the response text handed to parse_merge
    merge_suggestions, \* what parse_merge returned
    \* ---- synthesis (services.py) ----
    pca_cluster,      \* file models/pca_model_{task}_cluster.pkl
    kmeans_cluster,   \* file models/kmeans_model_{task}_cluster.pkl
    synth_pc,         \* where the synthesis call stands
    synth_input,      \* the records the call was given
    df,               \* the DataFrame of the qualifying records
    all_messages,     \* the per-cluster prompts: the numbered rules of each cluster
    new_rules,        \* OrderedDict: category description -> uids
    synth_ret,        \* what the call returned, and what it did on the way
    \* ---- the models directory under concurrent handlers (services.py) ----
    models_dir,       \* file name -> the model file of that name in models/
    calls,            \* handler coroutine -> where it stands and what it did
    \* ---- the parameters of a semantic fit (services.py) ----
    data_size,        \* len(suggestions), line 157
    fit_args          \* what KMeansConstrained was constructed with, line 211

mapperVars == <<uid2example, example2uid, pca_model, kmeans_model, uuid_count, ret>>

clientVars == <<cache, model, messages, pc, batch_index, all_answers, error_batches,
                mapping_list, cache_miss_msgs, cache_hit_responses, arrived,
                responses, retried, hit_seen, reordered, succeeded>>

parserVars == <<response, parsed>>

mergeVars == <<merge_groups, merge_response, merge_suggestions>>

\* The variables of the parts that follow the first three.
synthVars == <<pca_cluster, kmeans_cluster, synth_pc, synth_input, df, all_messages,
               new_rules, synth_ret>>

storeVars == <<models_dir, calls>>

sizeVars == <<data_size, fit_args>>

restVars == <<mergeVars, synthVars, storeVars, sizeVars>>

vars == <<mapperVars, clientVars, parserVars, restVars>>

----------------------------------------------------------------------------
(* Bounds of the model.                                                    *)

\* Longest examples list of one request.
MaxBatch == 3
\* uuid4() values a behaviour may draw (two tasks of two texts need four).
MaxUid == 4

\* Longest prompt list of one top-level completion call.
MaxMsgs == 4
\* create_answers_async's batch_size (20 in the source, line 391), scaled down
\* so that a call of MaxMsgs prompts spans more than one batch.
BatchSize == 2

Tasks == {"t1", "t2"}
Texts == {"A", "B"}

----------------------------------------------------------------------------
(* Python dicts and files.                                                 *)

\* d[k] = v
DictSet(d, k, v) == [x \in (DOMAIN d) \cup {k} |-> IF x = k THEN v ELSE d[x]]

EmptyDict == [x \in {} |-> 0]

\* A file that os.path.exists() does not find.
NoFile == [exists |-> FALSE, data |-> EmptyDict]

\* open(path, 'w') + json.dump(data, f) / pickle.dump(data, f)
FileOf(data) == [exists |-> TRUE, data |-> data]

Range(s) == {s[i] : i \in DOMAIN s}

\* The lists list(set(xs)) may be: every order of the distinct elements
\* (a Python set of str iterates in hash order, which varies per process).
Orders(S) == {f \in [1..Cardinality(S) -> S] : \A i, j \in DOMAIN f : f[i] = f[j] => i = j}

\* The examples lists of a request, up to reordering: the handler's first
\* statement (line 323) turns the list into a set, so only which texts occur
\* and how often reaches the program.  Of the lists with the same texts the
\* one in TextRank order is kept.
TextRank == [t \in Texts |-> IF t = "A" THEN 1 ELSE 2]

ExampleLists ==
    {s \in UNION {[1..n -> Texts] : n \in 1..MaxBatch} :
        \A i, j \in DOMAIN s : i < j => TextRank[s[i]] <= TextRank[s[j]]}


----------------------------------------------------------------------------
(* Identity mapper: process_annotation_json, services.py lines 322-352.    *)

\* The list taken as it came, without set().
NoDedupLists(examples) == {examples}

\* examples = list(set(examples))
DedupLists(examples) == Orders(Range(examples))

\* The membership test lost: every example is treated as new.
NotMappedAlways(example, e2u) == TRUE

\* if example not in example2uid
NotMapped(example, e2u) == example \notin DOMAIN e2u

\* for example in examples: if example not in example2uid: uid = uuid4();
\* uid2example[uid] = example; example2uid[example] = uid
\* n counts the uuid4() values drawn; a drawn value is named by its number,
\* so every draw differs from all earlier ones.
RECURSIVE AssignNew(_, _, _, _)
AssignNew(examples, u2e, e2u, n) ==
    IF examples = <<>>
    THEN [uid2example |-> u2e, example2uid |-> e2u, count |-> n]
    ELSE LET example == Head(examples) IN
         IF NotMapped(example, e2u)
         THEN AssignNew(Tail(examples), DictSet(u2e, n + 1, example),
                        DictSet(e2u, example, n + 1), n + 1)
         ELSE AssignNew(Tail(examples), u2e, e2u, n)

\* uids = [str(uuid.uuid4()) for _ in range(len(examples))]
FreshUids(examples, n) == [i \in 1..Len(examples) |-> n + i]

\* {uid: example for uid, example in zip(uids, examples)}
ZipUid2Example(uids, examples) ==
    [u \in Range(uids) |->
        examples[CHOOSE i \in DOMAIN uids :
                    uids[i] = u /\ \A j \in DOMAIN uids : uids[j] = u => j <= i]]

\* {example: uid for uid, example in zip(uids, examples)}: the last pair of
\* an example wins.
ZipExample2Uid(uids, examples) ==
    [e \in Range(examples) |->
        uids[CHOOSE i \in DOMAIN examples :
                examples[i] = e /\ \A j \in DOMAIN examples : examples[j] = e => j <= i]]

\* os.path.exists(uid2example file) and os.path.exists(example2uid file)
MappingExists(task) == uid2example[task].exists /\ example2uid[task].exists

\* Lines 325-352 without the updated flag of lines 331-338: the loaded tables
\* are saved again whether or not a uid was added.
ResolveBatchAlwaysWrite(task, examples) ==
    IF MappingExists(task)
    THEN LET r == AssignNew(examples, uid2example[task].data,
                            example2uid[task].data, uuid_count)
         IN [uid2example |-> r.uid2example,
             example2uid |-> r.example2uid,
             uids        |-> [i \in DOMAIN examples |-> r.example2uid[examples[i]]],
             count       |-> r.count,
             write       |-> TRUE]
    ELSE LET uids == FreshUids(examples, uuid_count)
         IN [uid2example |-> ZipUid2Example(uids, examples),
             example2uid |-> ZipExample2Uid(uids, examples),
             uids        |-> uids,
             count       |-> uuid_count + Len(examples),
             write       |-> TRUE]

\* Lines 325-352 on the deduplicated list: the tables to persist, the uids of
\* the examples, the uuid4() count, and whether the files are written.
ResolveBatch(task, examples) ==
    IF MappingExists(task)
    THEN LET r == AssignNew(examples, uid2example[task].data,
                            example2uid[task].data, uuid_count)
         IN [uid2example |-> r.uid2example,
             example2uid |-> r.example2uid,
             uids        |-> [i \in DOMAIN examples |-> r.example2uid[examples[i]]],
             count       |-> r.count,
             write       |-> r.count # uuid_count]
    ELSE LET uids == FreshUids(examples, uuid_count)
         IN [uid2example |-> ZipUid2Example(uids, examples),
             example2uid |-> ZipExample2Uid(uids, examples),
             uids        |-> uids,
             count       |-> uuid_count + Len(examples),
             write       |-> TRUE]

\* A model file that does not exist.  A model file's content is the number of
\* fits that have been written to it.
NoModel == [exists |-> FALSE, data |-> [fits |-> 0]]

\* Lines 112-120 with the test of line 120 always taken: a pair is fitted
\* whatever the files hold.
TopicalModelsNotLoaded(task) == FALSE

\* Lines 112-120 with the test of line 120 never taken: the locals count as
\* loaded whatever the files hold.
TopicalModelsAssumed(task) == TRUE

\* cluster_texts_with_pca, services.py lines 109-133: both model files are
\* loaded when present; when either is missing a model pair is fitted on the
\* batch and both files are written, else the loaded pair only predicts.
TopicalModelsLoaded(task) == pca_model[task].exists /\ kmeans_model[task].exists

\* What the handler does after the mapping is saved.  The embedding provider
\* (line 107), the fit (lines 121-124: KMeans refuses fewer samples than
\* n_clusters) and the later annotation and parsing are calls that either
\* return or raise:
\*   "embedding_error"  line 107 or the fit raises, no model file is written;
\*   "late_error"       the models are in place and a later step raises;
\*   "ok"               the handler returns its records.
BatchOutcomes == {"embedding_error", "late_error", "ok"}

\* process_annotation_json(examples, guideline_text, task_id)
AnnotateBatch(task, input, outcome) ==
    /\ UNCHANGED <<clientVars, parserVars, restVars>>
    /\ \E examples \in DedupLists(input) :
        LET r == ResolveBatch(task, examples)
            fit == outcome # "embedding_error" /\ ~TopicalModelsLoaded(task)
        IN /\ r.count <= MaxUid
           /\ uuid_count' = r.count
           /\ IF r.write
              THEN /\ uid2example' = [uid2example EXCEPT ![task] = FileOf(r.uid2example)]
                   /\ example2uid' = [example2uid EXCEPT ![task] = FileOf(r.example2uid)]
              ELSE UNCHANGED <<uid2example, example2uid>>
           /\ IF fit
              THEN /\ pca_model' = [pca_model EXCEPT ![task] = FileOf([fits |-> pca_model[task].data.fits + 1])]
                   /\ kmeans_model' = [kmeans_model EXCEPT ![task] = FileOf([fits |-> kmeans_model[task].data.fits + 1])]
              ELSE UNCHANGED <<pca_model, kmeans_model>>
           /\ ret' = [op       |-> "batch",
                      task     |-> task,
                      status   |-> IF outcome = "ok" THEN "ok" ELSE "error",
                      input    |-> input,
                      examples |-> examples,
                      uids     |-> r.uids,
                      minted   |-> (uuid_count + 1)..r.count,
                      wrote    |-> r.write]

----------------------------------------------------------------------------
(* process_annotation_one_json, services.py lines 412-456.                 *)

\* Lines 429-438 without line 431: the new uid is entered in example2uid only.
ResolveOneNoReverse(task, example) ==
    LET e2u == example2uid[task].data
        u2e == uid2example[task].data
    IN IF example \notin DOMAIN e2u
       THEN [uid2example |-> u2e,
             example2uid |-> DictSet(e2u, example, uuid_count + 1),
             uid         |-> uuid_count + 1,
             count       |-> uuid_count + 1,
             write       |-> TRUE]
       ELSE [uid2example |-> u2e,
             example2uid |-> e2u,
             uid         |-> e2u[example],
             count       |-> uuid_count,
             write       |-> FALSE]

\* Lines 429-438 with the loaded tables forgotten: a new text is saved in
\* tables that hold nothing else.
ResolveOneFreshTable(task, example) ==
    LET e2u == example2uid[task].data
        u2e == uid2example[task].data
    IN IF example \notin DOMAIN e2u
       THEN [uid2example |-> DictSet(EmptyDict, uuid_count + 1, example),
             example2uid |-> DictSet(EmptyDict, example, uuid_count + 1),
             uid         |-> uuid_count + 1,
             count       |-> uuid_count + 1,
             write       |-> TRUE]
       ELSE [uid2example |-> u2e,
             example2uid |-> e2u,
             uid         |-> e2u[example],
             count       |-> uuid_count,
             write       |-> FALSE]

\* Lines 429-438 behind a test of the loaded models: with a model file
\* missing nothing is minted or saved.
ResolveOneModelFirst(task, example) ==
    LET e2u == example2uid[task].data
        u2e == uid2example[task].data
    IN IF example \notin DOMAIN e2u /\ pca_model[task].exists /\ kmeans_model[task].exists
       THEN [uid2example |-> DictSet(u2e, uuid_count + 1, example),
             example2uid |-> DictSet(e2u, example, uuid_count + 1),
             uid         |-> uuid_count + 1,
             count       |-> uuid_count + 1,
             write       |-> TRUE]
       ELSE [uid2example |-> u2e,
             example2uid |-> e2u,
             uid         |-> IF example \in DOMAIN e2u THEN e2u[example] ELSE 0,
             count       |-> uuid_count,
             write       |-> FALSE]

\* Lines 429-438: the tables, the uid, the uuid4() count, whether written.
ResolveOne(task, example) ==
    LET e2u == example2uid[task].data
        u2e == uid2example[task].data
    IN IF NotMapped(example, e2u)
       THEN [uid2example |-> DictSet(u2e, uuid_count + 1, example),
             example2uid |-> DictSet(e2u, example, uuid_count + 1),
             uid         |-> uuid_count + 1,
             count       |-> uuid_count + 1,
             write       |-> TRUE]
       ELSE [uid2example |-> u2e,
             example2uid |-> e2u,
             uid         |-> e2u[example],
             count       |-> uuid_count,
             write       |-> FALSE]

\* Lines 424-427 raise FileNotFoundError when a mapping file is missing:
\* nothing is minted or written.
AnnotateOneNoMapping(task, example) ==
    /\ ~MappingExists(task)
    /\ ret' = [op       |-> "one",
               task     |-> task,
               status   |-> "error",
               input    |-> <<example>>,
               examples |-> <<example>>,
               uids     |-> <<>>,
               minted   |-> {},
               wrote    |-> FALSE]
    /\ UNCHANGED <<uid2example, example2uid, pca_model, kmeans_model, uuid_count>>
    /\ UNCHANGED <<clientVars, parserVars, restVars>>

\* With the mapping present the uid is resolved (and saved when new) before
\* the models are used.  Lines 447-452 call transform / predict on the loaded
\* pair: with a model file missing the local is None and the call raises.
AnnotateOneMapped(task, example, outcome) ==
    /\ MappingExists(task)
    /\ LET r == ResolveOne(task, example)
       IN /\ r.count <= MaxUid
          /\ uuid_count' = r.count
          /\ IF r.write
             THEN /\ uid2example' = [uid2example EXCEPT ![task] = FileOf(r.uid2example)]
                  /\ example2uid' = [example2uid EXCEPT ![task] = FileOf(r.example2uid)]
             ELSE UNCHANGED <<uid2example, example2uid>>
          /\ ret' = [op       |-> "one",
                     task     |-> task,
                     status   |-> IF outcome = "ok" /\ TopicalModelsLoaded(task)
                                  THEN "ok" ELSE "error",
                     input    |-> <<example>>,
                     examples |-> <<example>>,
                     uids     |-> <<r.uid>>,
                     minted   |-> (uuid_count + 1)..r.count,
                     wrote    |-> r.write]
    /\ UNCHANGED <<pca_model, kmeans_model>>
    /\ UNCHANGED <<clientVars, parserVars, restVars>>

----------------------------------------------------------------------------
(* The identity mapper's specification.                                    *)

NoRet == [op |-> "none", task |-> "t1", status |-> "ok", input |-> <<>>,
          examples |-> <<>>, uids |-> <<>>, minted |-> {},
          wrote |-> FALSE]

\* A fresh deployment: no mapping file and no model file for any task.
InitMapper ==
    /\ uid2example = [t \in Tasks |-> NoFile]
    /\ example2uid = [t \in Tasks |-> NoFile]
    /\ pca_model = [t \in Tasks |-> NoModel]
    /\ kmeans_model = [t \in Tasks |-> NoModel]
    /\ uuid_count = 0
    /\ ret = NoRet

\* The parser at rest: nothing to parse.
ParserIdle ==
    /\ response = <<>>
    /\ parsed = [path |-> "none", data |-> EmptyDict]

\* parse_merge at rest: nothing to parse.
MergeIdle ==
    /\ merge_groups = <<>>
    /\ merge_response = <<>>
    /\ merge_suggestions = [done |-> FALSE, value |-> <<>>]

\* What a synthesis call has done so far: nothing.
NoSynthRet ==
    [shape |-> "none", suggestions |-> <<>>, improvement_clusters |-> <<>>,
     loaded |-> FALSE, fitted |-> FALSE, wrote |-> FALSE, requests |-> 0,
     merged_rules |-> <<>>, merge_suggestions |-> <<>>, summaries |-> <<>>,
     error |-> "none"]

\* Synthesis at rest: no call in progress, no semantic model file.
SynthIdle ==
    /\ pca_cluster = [exists |-> FALSE, data |-> [k |-> 0]]
    /\ kmeans_cluster = [exists |-> FALSE, data |-> [k |-> 0]]
    /\ synth_pc = "idle"
    /\ synth_input = <<>>
    /\ df = <<>>
    /\ all_messages = <<>>
    /\ new_rules = <<>>
    /\ synth_ret = NoSynthRet

\* The concurrent handlers at rest: no call, no file looked at.
StoreIdle ==
    /\ models_dir = <<>>
    /\ calls = <<>>

\* Python's None as a size bound.
NoBound == <<"none", 0>>

\* KMeansConstrained not constructed.
NoFitArgs == [done |-> FALSE, n_clusters |-> 0, size_min |-> NoBound, size_max |-> NoBound]

\* No semantic fit in preparation.
SizeIdle ==
    /\ data_size = 0
    /\ fit_args = NoFitArgs

RestIdle == MergeIdle /\ SynthIdle /\ StoreIdle /\ SizeIdle

\* The completion client at rest: no call in progress, an empty cache.
ClientIdle ==
    /\ cache = EmptyDict
    /\ model = "gpt-4.1"
    /\ messages = <<>>
    /\ pc = "idle"
    /\ batch_index = 0
    /\ all_answers = <<>>
    /\ error_batches = <<>>
    /\ mapping_list = <<>>
    /\ cache_miss_msgs = <<>>
    /\ cache_hit_responses = <<>>
    /\ arrived = <<>>
    /\ responses = <<>>
    /\ retried = FALSE
    /\ hit_seen = FALSE
    /\ reordered = FALSE
    /\ succeeded = {}

NextMapper ==
    \/ \E task \in Tasks, input \in ExampleLists, outcome \in BatchOutcomes :
          AnnotateBatch(task, input, outcome)
    \/ \E task \in Tasks, example \in Texts : AnnotateOneNoMapping(task, example)
    \/ \E task \in Tasks, example \in Texts, outcome \in BatchOutcomes :
          AnnotateOneMapped(task, example, outcome)

MapperStart == InitMapper /\ ClientIdle /\ ParserIdle /\ RestIdle

SpecMapper == MapperStart /\ [][NextMapper]_vars


----------------------------------------------------------------------------
(* Properties of the identity mapper.                                      *)

\* C1: a handler call that resolves a text which the task's persisted table
\* already maps returns the uid of the table for it, draws no new uid for it
\* and leaves its entry as it was; and the uid a call returns for a text is
\* the one it leaves persisted, so resolving the text again returns it again.
C1_ResolveIsIdempotent ==
    [][\A i \in DOMAIN ret'.uids :
          LET t == ret'.task
              e == ret'.examples[i]
          IN /\ example2uid'[t].exists
             /\ e \in DOMAIN example2uid'[t].data
             /\ ret'.uids[i] = example2uid'[t].data[e]
             /\ (MappingExists(t) /\ e \in DOMAIN example2uid[t].data)
                    => /\ ret'.uids[i] = example2uid[t].data[e]
                       /\ ret'.uids[i] \notin ret'.minted
                       /\ DOMAIN uid2example'[t].data = DOMAIN uid2example[t].data
                                                           \cup ret'.minted
      ]_vars

\* A call returned uids for texts that were all known: nothing was drawn.
C1_Witness ==
    /\ ret.status = "ok"
    /\ ret.uids # <<>>
    /\ ret.minted = {}

\* C2: in every reachable state the two persisted tables of a task are
\* inverse to each other: every text's uid maps back to the text and every
\* uid's text maps back to the uid (so neither table sends two keys to one
\* value).
C2_TablesMutualInverse ==
    \A t \in Tasks :
        LET e2u == example2uid[t].data
            u2e == uid2example[t].data
        IN /\ \A e \in DOMAIN e2u : e2u[e] \in DOMAIN u2e /\ u2e[e2u[e]] = e
           /\ \A u \in DOMAIN u2e : u2e[u] \in DOMAIN e2u /\ e2u[u2e[u]] = u

\* A task holds both texts, the second one added by annotate_one.
C2_Witness ==
    /\ ret.op = "one"
    /\ ret.minted # {}
    /\ Cardinality(DOMAIN example2uid[ret.task].data) = 2
    /\ Cardinality(DOMAIN uid2example[ret.task].data) = 2

\* C3: annotate_batch gives the request's texts exactly one uid per distinct
\* text, equal texts the same uid; with a mapping persisted it draws a uid
\* for exactly the distinct texts the mapping lacks, and a text the mapping
\* holds keeps its uid.
C3_BatchDedupAndMerge ==
    [][ret'.op = "batch" =>
          LET t == ret'.task
              texts == Range(ret'.input)
          IN /\ Range(ret'.examples) = texts
             /\ Len(ret'.uids) = Cardinality(texts)
             /\ Cardinality(Range(ret'.uids)) = Cardinality(texts)
             /\ MappingExists(t) =>
                   /\ Cardinality(ret'.minted)
                         = Cardinality(texts \ DOMAIN example2uid[t].data)
                   /\ \A u \in ret'.minted :
                         uid2example'[t].data[u] \in texts \ DOMAIN example2uid[t].data
                   /\ \A e \in texts \cap DOMAIN example2uid[t].data :
                         example2uid'[t].data[e] = example2uid[t].data[e]
      ]_vars

\* Three texts, two of them identical, one of the two distinct texts already
\* mapped: two uids come back and one of them is new.
C3_Witness ==
    /\ ret.op = "batch"
    /\ ret.status = "ok"
    /\ Len(ret.input) = 3
    /\ Cardinality(Range(ret.input)) = 2
    /\ Cardinality(Range(ret.uids)) = 2
    /\ Cardinality(ret.minted) = 1


----------------------------------------------------------------------------
(* Batched completion client: utils.py lines 386-441 and 493-516.          *)

Prompts == {"p1", "p2"}

\* The provider's completions of one prompt differ from call to call; a
\* completion is named by the prompt it answers and which of them it is.
Variants == {1, 2}

Completion(msg, v) == <<msg, v>>

\* The prompt a completion answers.
PromptOf(answer) == answer[1]

\* The cache key (model, msg_in_batch)
Key(m, msg) == <<m, msg>>

Min(a, b) == IF a < b THEN a ELSE b

\* batchify(lst, batch_size): [lst[i:i + batch_size] for i in range(0, len(lst), batch_size)]
batchify(lst, batch_size) ==
    [b \in 1..((Len(lst) + batch_size - 1) \div batch_size) |->
        SubSeq(lst, (b - 1) * batch_size + 1, Min(b * batch_size, Len(lst)))]

batched_msgs == batchify(messages, BatchSize)

\* The cache lookup that partitions every prompt as a miss.
NeverInCache(c, m, msg) == FALSE

\* (model, msg_in_batch) in litellm_responses, line 409
InCache(c, m, msg) == Key(m, msg) \in DOMAIN c

\* Lines 405-414: the loop over the batch, from the locals so far.
RECURSIVE PartitionBatch(_, _, _, _, _, _)
PartitionBatch(batch, c, m, mapping, misses, hits) ==
    IF batch = <<>>
    THEN [mapping_list |-> mapping, cache_miss_msgs |-> misses,
          cache_hit_responses |-> hits]
    ELSE LET msg == Head(batch) IN
         IF InCache(c, m, msg)
         THEN PartitionBatch(Tail(batch), c, m,
                             Append(mapping, Len(hits) + 1), misses,
                             Append(hits, c[Key(m, msg)]))
         ELSE PartitionBatch(Tail(batch), c, m,
                             Append(mapping, - Len(misses) - 1),
                             Append(misses, msg), hits)

\* The results in the order the requests completed.
ResultsByArrival(done, n) == [k \in 1..n |-> done[k].answer]

\* asyncio.gather (line 421) returns the results in the order of its
\* awaitables, whatever the order they completed in.
GatherResults(done, n) ==
    [k \in 1..n |-> done[CHOOSE a \in DOMAIN done : done[a].k = k].answer]

\* Lines 427-432: merged_responses
MergeResponses(mapping, hits, answers) ==
    [j \in DOMAIN mapping |->
        IF mapping[j] > 0 THEN hits[mapping[j]] ELSE answers[- mapping[j]]]

\* The cache left as it was.
WriteNothing(c, m, msgs, answers) == c

\* Lines 425-426 with the loop left after its first turn: only the first
\* miss of the batch is stored.
WriteCacheFirstOnly(c, m, msgs, answers) ==
    IF msgs = <<>> THEN c ELSE DictSet(c, Key(m, Head(msgs)), Head(answers))

\* Lines 425-426: litellm_responses[(model, msg)] = ... for every miss, in order.
RECURSIVE WriteCache(_, _, _, _)
WriteCache(c, m, msgs, answers) ==
    IF msgs = <<>> THEN c
    ELSE WriteCache(DictSet(c, Key(m, Head(msgs)), Head(answers)), m,
                    Tail(msgs), Tail(answers))

\* The test that ends the loop after any pass.
AlwaysStop(err_batches) == TRUE

\* if len(err_batches) == 0: break   (lines 500 and 513)
NoFailedBatch(err_batches) == Len(err_batches) = 0

\* The for loop of line 404 goes on to the next batch, or the pass ends.
AfterBatch(next) == IF next < Len(batched_msgs) THEN "partition" ELSE "pass_end"

Pending == (1..Len(cache_miss_msgs)) \ {arrived[a].k : a \in DOMAIN arrived}

\* Lines 404-418: the batch is partitioned against the cache.  A batch with no
\* miss is answered from the cache; otherwise one request per miss is issued
\* (line 421) and the gather is awaited.
Partition ==
    /\ UNCHANGED <<mapperVars, parserVars, restVars>>
    /\ pc = "partition"
    /\ LET p == PartitionBatch(batched_msgs[batch_index + 1], cache, model, <<>>, <<>>, <<>>)
       IN /\ mapping_list' = p.mapping_list
          /\ cache_miss_msgs' = p.cache_miss_msgs
          /\ cache_hit_responses' = p.cache_hit_responses
          /\ hit_seen' = (hit_seen \/ p.cache_hit_responses # <<>>)
          /\ IF Len(p.cache_miss_msgs) = 0
             THEN /\ all_answers' = all_answers \o p.cache_hit_responses
                  /\ batch_index' = batch_index + 1
                  /\ succeeded' = succeeded \cup {batch_index}
                  /\ pc' = AfterBatch(batch_index + 1)
             ELSE /\ pc' = "gather"
                  /\ UNCHANGED <<all_answers, batch_index, succeeded>>
    /\ arrived' = <<>>
    /\ UNCHANGED <<cache, model, messages, error_batches, responses, retried, reordered>>

\* achat (lines 373-383) of request k returns the provider's completion.
ProviderRespond(k, v) ==
    /\ UNCHANGED <<mapperVars, parserVars, restVars>>
    /\ pc = "gather"
    /\ k \in Pending
    /\ arrived' = Append(arrived, [k |-> k, answer |-> Completion(cache_miss_msgs[k], v)])
    /\ reordered' = (reordered \/ \E j \in Pending : j < k)
    /\ UNCHANGED <<cache, model, messages, pc, batch_index, all_answers, error_batches,
                   mapping_list, cache_miss_msgs, cache_hit_responses, responses,
                   retried, hit_seen, succeeded>>

\* The gather drops the index of the failed batch.
GatherRaiseUnrecorded(k) ==
    /\ UNCHANGED <<mapperVars, parserVars, restVars>>
    /\ pc = "gather"
    /\ k \in Pending
    /\ batch_index' = batch_index + 1
    /\ pc' = AfterBatch(batch_index + 1)
    /\ UNCHANGED <<cache, model, messages, all_answers, error_batches, mapping_list,
                   cache_miss_msgs, cache_hit_responses, arrived, responses,
                   retried, hit_seen, reordered, succeeded>>

\* Request k raises: the gather raises at once and the except branch (lines
\* 435-437) records the batch index.  Nothing is added to all_answers and
\* nothing is written to the cache; the loop goes on.
GatherRaise(k) ==
    /\ UNCHANGED <<mapperVars, parserVars, restVars>>
    /\ pc = "gather"
    /\ k \in Pending
    /\ error_batches' = Append(error_batches, batch_index)
    /\ batch_index' = batch_index + 1
    /\ pc' = AfterBatch(batch_index + 1)
    /\ UNCHANGED <<cache, model, messages, all_answers, mapping_list,
                   cache_miss_msgs, cache_hit_responses, arrived, responses,
                   retried, hit_seen, reordered, succeeded>>

\* Every request has completed: lines 422-434.
GatherReturn ==
    /\ UNCHANGED <<mapperVars, parserVars, restVars>>
    /\ pc = "gather"
    /\ Pending = {}
    /\ LET answers == GatherResults(arrived, Len(cache_miss_msgs))
       IN /\ cache' = WriteCache(cache, model, cache_miss_msgs, answers)
          /\ all_answers' = all_answers
                  \o MergeResponses(mapping_list, cache_hit_responses, answers)
    /\ batch_index' = batch_index + 1
    /\ succeeded' = succeeded \cup {batch_index}
    /\ pc' = AfterBatch(batch_index + 1)
    /\ UNCHANGED <<model, messages, error_batches, mapping_list, cache_miss_msgs,
                   cache_hit_responses, arrived, responses, retried, hit_seen,
                   reordered>>

\* create_answers_async returns (line 441) to the while True loop of
\* call_openai / call_openai_annotation (lines 497-503, 508-516): the call
\* returns the pass's answers when no batch failed and runs a new pass of all
\* the messages otherwise.
PassEnd ==
    /\ UNCHANGED <<mapperVars, parserVars, restVars>>
    /\ pc = "pass_end"
    /\ IF NoFailedBatch(error_batches)
       THEN /\ responses' = all_answers
            /\ pc' = "returned"
            /\ UNCHANGED <<batch_index, all_answers, error_batches, retried, hit_seen, reordered>>
       ELSE /\ pc' = "partition"
            /\ batch_index' = 0
            /\ all_answers' = <<>>
            /\ error_batches' = <<>>
            /\ retried' = TRUE
            /\ hit_seen' = FALSE
            /\ reordered' = FALSE
            /\ UNCHANGED responses
    /\ UNCHANGED <<cache, model, messages, mapping_list, cache_miss_msgs,
                   cache_hit_responses, arrived, succeeded>>

\* The mapper at rest.
MapperIdle == InitMapper

MessageLists == UNION {[1..n -> Prompts] : n \in 1..MaxMsgs}

\* The caches an earlier run of this client can have left: some prompts of
\* the model stored with a completion of theirs.
StoredCaches(m) ==
    UNION {[{Key(m, msg) : msg \in S} -> {Completion(msg, 1) : msg \in S}]
              : S \in SUBSET Prompts}

\* A top-level call starts: create_answers_async is entered with its
\* messages, on the cache left by earlier calls.
InitClient ==
    /\ model = "gpt-4.1"
    /\ messages \in MessageLists
    /\ cache \in {c \in StoredCaches(model) : \A key \in DOMAIN c : PromptOf(c[key]) = key[2]}
    /\ pc = "partition"
    /\ batch_index = 0
    /\ all_answers = <<>>
    /\ error_batches = <<>>
    /\ mapping_list = <<>>
    /\ cache_miss_msgs = <<>>
    /\ cache_hit_responses = <<>>
    /\ arrived = <<>>
    /\ responses = <<>>
    /\ retried = FALSE
    /\ hit_seen = FALSE
    /\ reordered = FALSE
    /\ succeeded = {}

ProviderStep ==
    \E k \in 1..BatchSize : (\E v \in Variants : ProviderRespond(k, v)) \/ GatherRaise(k)

NextClient ==
    \/ Partition
    \/ \E k \in 1..BatchSize, v \in Variants : ProviderRespond(k, v)
    \/ \E k \in 1..BatchSize : GatherRaise(k)
    \/ GatherReturn
    \/ PassEnd

ClientStart == InitClient /\ MapperIdle /\ ParserIdle /\ RestIdle

SpecClient == ClientStart /\ [][NextClient]_vars

\* The event loop runs the coroutine whenever it can go on, every request
\* completes (with a completion or an exception), and a batch that is
\* attempted again and again does not fail every time.
FairSpecClient ==
    /\ SpecClient
    /\ WF_vars(Partition)
    /\ WF_vars(GatherReturn)
    /\ WF_vars(PassEnd)
    /\ WF_vars(ProviderStep)
    /\ ([]<>(pc = "gather") => []<><<GatherReturn>>_vars)


----------------------------------------------------------------------------
(* Output parser: parse_json_output, utils.py lines 444-485.               *)
(*                                                                         *)
(* A response is its sequence of lines.  A line is a record                *)
(*   kind   "fence"  a code-fence marker (```json or ```)                  *)
(*          "think"  the closing marker </think>                           *)
(*          "open"   {        "close"  }                                   *)
(*          "pair"   "key": value   with or without a trailing comma       *)
(*          "prose"  any other text        "empty"  nothing                *)
(*   key    the field name of a pair line                                  *)
(*   q      the value is written in double quotes                          *)
(*   txt    the value's text (the text of a prose line)                    *)
(*   comma  the pair line ends with a comma                                *)
(* A Python value is a pair <<type, text>>.                                *)

Fields == {"analysis", "annotation", "confidence", "new_edge_case", "new_edge_case_rule"}

FieldOrder == <<"analysis", "annotation", "confidence", "new_edge_case", "new_edge_case_rule">>

Line(kind, key, q, txt, comma) ==
    [kind |-> kind, key |-> key, q |-> q, txt |-> txt, comma |-> comma]

EmptyLine == Line("empty", "", FALSE, "", FALSE)
FenceLine == Line("fence", "", FALSE, "", FALSE)
ThinkLine == Line("think", "", FALSE, "", FALSE)
OpenLine == Line("open", "", FALSE, "", FALSE)
CloseLine == Line("close", "", FALSE, "", FALSE)

PyNone == <<"None", "">>
PyInt(txt) == <<"int", txt>>
PyFloat(txt) == <<"float", txt>>
PyStr(txt) == <<"str", txt>>
PyBool(b) == <<"bool", IF b THEN "True" ELSE "False">>
\* A local that no statement has assigned.
Unbound == <<"unbound", "">>

\* The field names that occur in a text as substrings.
Mentions(txt) ==
    CASE txt = "the annotation is 1" -> {"annotation"}
      [] txt = "my confidence is low, new_edge_case unclear" -> {"confidence", "new_edge_case"}
      [] OTHER -> {}

\* word in line: the key of a pair line stands in the line, and
\* new_edge_case is a substring of new_edge_case_rule.
Contains(line, word) ==
    \/ /\ line.kind = "pair"
       /\ \/ line.key = word
          \/ line.key = "new_edge_case_rule" /\ word = "new_edge_case"
    \/ word \in Mentions(line.txt)

\* re.search(r'\d+\.?\d*', line): the first number of the line, "" for no match.
FirstNumber(line) ==
    CASE line.txt = "85" -> "85"
      [] line.txt = "1" -> "1"
      [] line.txt = "the annotation is 1" -> "1"
      [] OTHER -> ""

\* 'true' in line.lower()
HasTrue(line) == line.txt \in {"true", "True"}

\* line.split(':')[-1].strip(' \n"\',') of a pair line: the value's text
\* without its quotes and comma.
AfterColon(line) == line.txt

\* response.replace('```json', '').replace('```', ''), line 445
RemoveFences(lines) ==
    [n \in DOMAIN lines |-> IF lines[n].kind = "fence" THEN EmptyLine ELSE lines[n]]

\* .strip('\n '), line 445: empty lines at either end go.
RECURSIVE StripLeft(_)
StripLeft(lines) ==
    IF lines # <<>> /\ Head(lines).kind = "empty" THEN StripLeft(Tail(lines)) ELSE lines

RECURSIVE StripRight(_)
StripRight(lines) ==
    IF lines # <<>> /\ lines[Len(lines)].kind = "empty"
    THEN StripRight(SubSeq(lines, 1, Len(lines) - 1))
    ELSE lines

Strip(lines) == StripRight(StripLeft(lines))

ThinkAt(lines) == {n \in DOMAIN lines : lines[n].kind = "think"}

SetMin(S) == CHOOSE x \in S : \A y \in S : x <= y

\* if '</think>' in response: response = response.split('</think>')[1]
\* (lines 446-447): the text between the first marker and the next one.
AfterThink(lines) ==
    IF ThinkAt(lines) = {} THEN lines
    ELSE LET first == SetMin(ThinkAt(lines))
             later == {n \in ThinkAt(lines) : n > first}
             last == IF later = {} THEN Len(lines) ELSE SetMin(later) - 1
         IN SubSeq(lines, first + 1, last)

\* The text parse_json_output works on (lines 445-447).
Cleaned(resp) == AfterThink(Strip(RemoveFences(resp)))

\* The value a JSON value text denotes; "True" is no JSON.
IsJsonValue(line) == line.q \/ line.txt \in {"85", "1", "true", "false"}

JsonValue(line) ==
    IF line.q THEN PyStr(line.txt)
    ELSE IF line.txt = "true" THEN PyBool(TRUE)
    ELSE IF line.txt = "false" THEN PyBool(FALSE)
    ELSE PyInt(line.txt)

NonEmpty(lines) == SelectSeq(lines, LAMBDA l : l.kind # "empty")

\* json.loads(response) returns a dict: the text is { pairs }, the pairs
\* separated by commas, every value a JSON value.
IsJsonObject(lines) ==
    LET body == NonEmpty(lines)
        n == Len(body)
    IN /\ n >= 2
       /\ body[1].kind = "open"
       /\ body[n].kind = "close"
       /\ \A j \in 2..(n - 1) :
             /\ body[j].kind = "pair"
             /\ IsJsonValue(body[j])
             /\ body[j].comma = (j < n - 1)

\* The dict json.loads builds: the last pair of a key wins.
JsonDict(lines) ==
    LET body == NonEmpty(lines)
        at(key) == {j \in DOMAIN body : body[j].kind = "pair" /\ body[j].key = key}
    IN [key \in {body[j].key : j \in {j \in DOMAIN body : body[j].kind = "pair"}} |->
           JsonValue(body[CHOOSE j \in at(key) : \A j2 \in at(key) : j2 <= j])]

\* The asserts with the one for new_edge_case_rule left out.
RequiredKeysButRule == Fields \ {"new_edge_case_rule"}

\* The keys lines 450-454 assert.
RequiredKeys == Fields

\* Lines 448-456: the try block succeeds.  (Whatever else json.loads returns
\* has no keys(), and the except branch takes that too.)
StrictOk(lines) == IsJsonObject(lines) /\ RequiredKeys \subseteq DOMAIN JsonDict(lines)

\* Line 458: response.split(': "', 1)[-1].split('"annotation"')[0].strip(...):
\* a str in every case.  It is the text that starts at the first quoted value
\* (and runs to the key "annotation" or to the end), named here by that
\* value; with no quoted value it is the whole response.
FallbackAnalysis(lines) ==
    LET quoted == {n \in DOMAIN lines : lines[n].kind = "pair" /\ lines[n].q}
    IN IF quoted = {} THEN PyStr("(the response)")
       ELSE PyStr(lines[SetMin(quoted)].txt)

\* Lines 460-477: the loop over res_lines, from the locals so far.
RECURSIVE ScanLines(_, _)
ScanLines(lines, loc) ==
    IF lines = <<>> THEN loc
    ELSE LET line == Head(lines) IN
         ScanLines(Tail(lines),
            IF Contains(line, "annotation")
            THEN [loc EXCEPT !.annotation = PyStr(AfterColon(line))]
            ELSE IF Contains(line, "new_edge_case_rule")
            THEN [loc EXCEPT !.edge_case_rule = PyStr(AfterColon(line))]
            ELSE IF Contains(line, "new_edge_case")
            THEN [loc EXCEPT !.new_edge_case = PyBool(HasTrue(line))]
            ELSE IF Contains(line, "confidence")
            THEN IF FirstNumber(line) # ""
                 THEN [loc EXCEPT !.confidence_score = PyFloat(FirstNumber(line))]
                 ELSE loc
            ELSE loc)

\* Lines 460-463: annotation = -1, edge_case_rule = None,
\* confidence_score = 50.0; new_edge_case has no initial value.
FallbackLocals ==
    [annotation |-> PyInt("-1"), edge_case_rule |-> PyNone,
     confidence_score |-> PyFloat("50.0"), new_edge_case |-> Unbound]

\* Lines 457-484.  Building the dict reads new_edge_case (line 482): unbound,
\* the read raises UnboundLocalError out of parse_json_output.
Fallback(lines) ==
    LET loc == ScanLines(lines, FallbackLocals)
    IN IF loc.new_edge_case = Unbound
       THEN [path |-> "raised", data |-> EmptyDict]
       ELSE [path |-> "fallback",
             data |-> [f \in Fields |->
                         CASE f = "analysis" -> FallbackAnalysis(lines)
                           [] f = "annotation" -> loc.annotation
                           [] f = "confidence" -> loc.confidence_score
                           [] f = "new_edge_case" -> loc.new_edge_case
                           [] f = "new_edge_case_rule" -> loc.edge_case_rule]]

parse_json_output(resp) ==
    LET lines == Cleaned(resp)
    IN IF StrictOk(lines)
       THEN [path |-> "strict", data |-> JsonDict(lines)]
       ELSE Fallback(lines)

\* parse_json_output is applied to the response.
Parse ==
    /\ parsed.path = "none"
    /\ parsed' = parse_json_output(response)
    /\ UNCHANGED response
    /\ UNCHANGED <<mapperVars, clientVars, restVars>>

----------------------------------------------------------------------------
(* The responses the parser is run on.                                     *)

\* The values a response gives a field ("absent": no line for the field).
FieldValues(f) ==
    CASE f = "analysis" ->
            {Line("pair", f, TRUE, "text", TRUE),
             Line("pair", f, TRUE, "the annotation is 1", TRUE)}
      [] f = "annotation" -> {Line("pair", f, TRUE, "1", TRUE)}
      [] f = "confidence" ->
            {Line("pair", f, FALSE, "85", TRUE), Line("pair", f, TRUE, "high", TRUE)}
      [] f = "new_edge_case" ->
            {Line("pair", f, FALSE, "true", TRUE), Line("pair", f, FALSE, "false", TRUE),
             Line("pair", f, FALSE, "True", TRUE)}
      [] f = "new_edge_case_rule" ->
            {Line("pair", f, TRUE, "EMPTY", TRUE), Line("pair", f, TRUE, "when x -> y", TRUE)}

Absent == Line("absent", "", FALSE, "", FALSE)

\* The pair lines of a choice of fields, in the order of the prompt's format.
PairLines(choice) ==
    SelectSeq([n \in 1..5 |-> choice[FieldOrder[n]]], LAMBDA l : l.kind = "pair")

\* commas = "json": every pair line but the last ends with a comma;
\* commas = "trailing": the last one does too, as in the prompt's format.
WithCommas(pairs, commas) ==
    [n \in DOMAIN pairs |->
        [pairs[n] EXCEPT !.comma = (commas = "trailing" \/ n < Len(pairs))]]

ThinkingLine == Line("prose", "", FALSE, "my confidence is low, new_edge_case unclear", FALSE)

\* lead = "think": a thinking preamble closed by </think>;
\* lead = "prose": a line of prose before the fields and no marker.
Compose(lead, fenced, braces, commas, choice) ==
    (IF lead = "think" THEN <<ThinkingLine, ThinkLine>>
     ELSE IF lead = "prose" THEN <<ThinkingLine>> ELSE <<>>)
    \o (IF fenced THEN <<FenceLine>> ELSE <<>>)
    \o (IF braces THEN <<OpenLine>> ELSE <<>>)
    \o WithCommas(PairLines(choice), commas)
    \o (IF braces THEN <<CloseLine>> ELSE <<>>)
    \o (IF fenced THEN <<FenceLine>> ELSE <<>>)

FieldChoices ==
    {c \in [Fields -> UNION {FieldValues(f) : f \in Fields} \cup {Absent}] :
        \A f \in Fields : c[f] = Absent \/ c[f] \in FieldValues(f)}

Responses ==
    {Compose(lead, fenced, braces, commas, choice) :
        lead \in {"none", "think", "prose"}, fenced \in BOOLEAN, braces \in BOOLEAN,
        commas \in {"json", "trailing"}, choice \in FieldChoices}

InitParser ==
    /\ response \in Responses
    /\ parsed = [path |-> "none", data |-> EmptyDict]

ParserStart == InitParser /\ MapperIdle /\ ClientIdle /\ RestIdle

NextParser == Parse

SpecParser == ParserStart /\ [][NextParser]_vars


----------------------------------------------------------------------------
(* Properties of the batched completion client.                            *)

\* The prompts of the batches processed so far in this pass that did not
\* fail, in input order.
RECURSIVE KeptPrompts(_)
KeptPrompts(b) ==
    IF b = 0 THEN <<>>
    ELSE KeptPrompts(b - 1)
         \o (IF (b - 1) \in Range(error_batches) THEN <<>> ELSE batched_msgs[b])

AnswersFor(answers, prompts) ==
    /\ Len(answers) = Len(prompts)
    /\ \A j \in DOMAIN answers : PromptOf(answers[j]) = prompts[j]

\* C4 as stated: at the end of a pass the output list has one completion per
\* input prompt, output[j] the completion of input[j].
C4_OutputOnePerInput ==
    pc = "pass_end" => AnswersFor(all_answers, messages)

\* C4 amended: whatever the pattern of cache hits and the arrival order, the
\* output list holds, in input order, exactly one completion for each prompt
\* of the batches that did not fail; so with no failed batch it has length N
\* and output[j] is the completion of input[j].
C4_OutputOnePerKeptInput ==
    /\ AnswersFor(all_answers, KeptPrompts(batch_index))
    /\ (pc = "pass_end" /\ error_batches = <<>>) => AnswersFor(all_answers, messages)

\* A pass over two batches ended without a failure after serving a prompt
\* from the cache and after completions arrived out of request order.
C4_Witness ==
    /\ pc = "pass_end"
    /\ error_batches = <<>>
    /\ Len(batched_msgs) >= 2
    /\ Len(all_answers) = Len(messages)
    /\ hit_seen
    /\ reordered

\* C5: partitioning a batch issues one provider request for each prompt whose
\* (model, prompt) key is not in the cache and none for the others, every
\* completion that arrives answers such a request, a batch with every key in
\* the cache goes on without any request, and when the batch's answers are
\* added a prompt with its key in the cache gets the stored value.
C5_ProviderOnlyForMisses ==
    [][LET batch == batched_msgs[batch_index + 1]
           hit(j) == Key(model, batch[j]) \in DOMAIN cache
           misses == SelectSeq(batch, LAMBDA msg : Key(model, msg) \notin DOMAIN cache)
       IN /\ pc = "partition" =>
                /\ (pc' = "gather") = (misses # <<>>)
                /\ pc' = "gather" => cache_miss_msgs' = misses /\ arrived' = <<>>
          /\ (pc = "gather" /\ Len(arrived') > Len(arrived)) =>
                LET new == arrived'[Len(arrived')]
                IN /\ new.k \in DOMAIN misses
                   /\ PromptOf(new.answer) = misses[new.k]
          /\ (pc \in {"partition", "gather"} /\ Len(all_answers') > Len(all_answers)) =>
                \A j \in DOMAIN batch :
                    hit(j) => all_answers'[Len(all_answers) + j] = cache[Key(model, batch[j])]
      ]_vars

\* A batch with a cached and an uncached prompt is being gathered.
C5_Witness ==
    /\ pc = "gather"
    /\ Len(cache_miss_msgs) = 1
    /\ Len(cache_hit_responses) = 1
    /\ arrived # <<>>

\* C6: when the gather of a batch raises (it ends with a request that has not
\* returned), the batch index is appended to error_batches, all_answers and
\* the cache stay as they were, and the client goes on with the next batch
\* (or ends the pass after the last one); nothing is returned to the caller
\* by that step.
C6_FailedBatchIsolated ==
    [][(pc = "gather" /\ pc' # "gather" /\ Pending # {}) =>
          /\ error_batches' = Append(error_batches, batch_index)
          /\ all_answers' = all_answers
          /\ cache' = cache
          /\ batch_index' = batch_index + 1
          /\ pc' = IF batch_index + 1 < Len(batched_msgs) THEN "partition" ELSE "pass_end"
          /\ responses' = responses
      ]_vars

\* The first batch failed, and the second went on to contribute its answers.
C6_Witness ==
    /\ pc = "pass_end"
    /\ error_batches = <<0>>
    /\ batch_index = 2
    /\ all_answers # <<>>
    /\ AnswersFor(all_answers, batched_msgs[2])

\* C7: a top-level call that has returned returned the answers of a pass with
\* no failed batch: one completion per input prompt, in input order.
C7_ReturnsOnlyCompletePass ==
    pc = "returned" =>
        /\ error_batches = <<>>
        /\ responses = all_answers
        /\ AnswersFor(responses, messages)

\* A call over two batches returned after at least one failed pass.
C7_Witness ==
    /\ pc = "returned"
    /\ retried
    /\ Len(messages) > BatchSize

\* C8: under FairSpecClient (a batch attempted again and again does not fail
\* every time) the top-level call eventually returns; and in any behaviour it
\* returns only out of a pass without a failed batch, never with a failure.
C8_EventuallyReturns ==
    /\ <>(pc = "returned")
    /\ [][pc' = "returned" => (pc = "returned" \/ (pc = "pass_end" /\ error_batches = <<>>))]_vars

\* A call returned after a failed pass, its last pass served from the cache.
C8_Witness ==
    /\ pc = "returned"
    /\ retried
    /\ hit_seen
    /\ error_batches = <<>>

----------------------------------------------------------------------------
(* Properties of the output parser.                                        *)

\* C9 as stated: whenever the strict parse fails, parse_json_output returns
\* a record with all five fields; it never raises.
C9_FallbackNeverRaises ==
    parsed.path \in {"fallback", "raised"} =>
        /\ parsed.path = "fallback"
        /\ Fields \subseteq DOMAIN parsed.data

\* The value the cleaned response gives key f as a JSON object.
GivenValue(f) ==
    LET body == Cleaned(response)
        at == {n \in DOMAIN body : body[n].kind = "pair" /\ body[n].key = f}
    IN JsonValue(body[CHOOSE n \in at : \A n2 \in at : n2 <= n])

\* C10: parse_json_output takes the strict path exactly when the response,
\* with the fence markers and the thinking preamble removed, is a JSON object
\* that has all five keys, and then returns each of the five fields with the
\* value the object gives it; otherwise (a key absent, or no JSON object) the
\* fallback path is taken.
C10_StrictIffFiveKeys ==
    parsed.path # "none" =>
        LET body == Cleaned(response)
            has(f) == \E n \in DOMAIN body : body[n].kind = "pair" /\ body[n].key = f
            wellFormed == IsJsonObject(body) /\ \A f \in Fields : has(f)
        IN /\ (parsed.path = "strict") = wellFormed
           /\ wellFormed => \A f \in Fields : parsed.data[f] = GivenValue(f)
           /\ ~wellFormed => parsed.path \in {"fallback", "raised"}

\* A fenced JSON object with all five keys after a thinking preamble was
\* parsed on the strict path.
C10_Witness ==
    /\ parsed.path = "strict"
    /\ \E n \in DOMAIN response : response[n].kind = "think"
    /\ \E n \in DOMAIN response : response[n].kind = "fence"
    /\ parsed.data["confidence"] = PyInt("85")

\* The response has no JSON container: its fields stand as loose lines.
LooseLines(resp) ==
    /\ \A n \in DOMAIN resp : resp[n].kind \notin {"open", "close"}
    /\ \E n \in DOMAIN resp : resp[n].kind = "pair"

\* C11 as stated: a response whose fields are loose text lines is parsed into
\* a complete record; its confidence is not None, and is 50 when no number is
\* recovered from a confidence line; its annotation is not None, and is -1
\* when no line holds the word annotation.
C11_LooseLinesGiveCompleteRecord ==
    (parsed.path # "none" /\ LooseLines(response)) =>
        LET lines == Cleaned(response)
            numbered == \E n \in DOMAIN lines :
                            /\ lines[n].kind = "pair"
                            /\ lines[n].key = "confidence"
                            /\ FirstNumber(lines[n]) # ""
            annotated == \E n \in DOMAIN lines : Contains(lines[n], "annotation")
        IN /\ parsed.path = "fallback"
           /\ Fields \subseteq DOMAIN parsed.data
           /\ parsed.data["confidence"] # PyNone
           /\ parsed.data["annotation"] # PyNone
           /\ ~numbered => parsed.data["confidence"] = PyFloat("50.0")
           /\ ~annotated => parsed.data["annotation"] = PyInt("-1")


----------------------------------------------------------------------------
(* Merge-suggestion parser: parse_merge, utils.py lines 567-580.           *)
(*                                                                         *)
(* A response is its sequence of lines and a line is a sequence of tokens: *)
(* "Merge ", "[", "]", ", ", ": ", a number's digits, "NO MERGE",          *)
(* "Merge Suggestions:", or a stretch of other text.                       *)

\* Highest rule number of a merge list.
MaxRule == 3
\* Longest member list of a merge group.
MaxMembers == 2
\* Most merge groups of one response.
MaxGroups == 2

\* Merged rule texts, as tokens.
RuleTexts ==
    {<<"when x -> y">>, <<"when z -> w">>, <<"when a post quotes", ": ", "x -> y">>}

\* str(n) and int(text) of a rule number
NumText(n) == ToString(n)

NumOf(tok) == CHOOSE n \in 0..(MaxRule + 1) : ToString(n) = tok

IsNum(tok) == \E n \in 0..(MaxRule + 1) : ToString(n) = tok

\* The text [n1, n2, ...] of a list of numbers.
RECURSIVE ListText(_)
ListText(ns) ==
    IF ns = <<>> THEN <<>>
    ELSE IF Len(ns) = 1 THEN <<NumText(ns[1])>>
    ELSE <<NumText(ns[1]), ", ">> \o ListText(Tail(ns))

\* One line of the grammar of MERGE_PROMPT (services.py lines 93-95):
\* Merge [list of edge case numbers]: <merged rule text>
MergeLine(g) == <<"Merge ", "[">> \o ListText(g.merge) \o <<"]", ": ">> \o g.merged_rule

HeaderLine == <<"Merge Suggestions:">>

\* The response for a list of groups: a line per group, or NO MERGE for none
\* (services.py line 99); with or without the header line.
RenderMerge(groups, header) ==
    (IF header THEN <<HeaderLine>> ELSE <<>>)
    \o (IF groups = <<>> THEN <<<<"NO MERGE">>>>
        ELSE [n \in DOMAIN groups |-> MergeLine(groups[n])])

\* re.match(r'Merge (\[[^\[\]]*\])', line), line 574: the position of the
\* closing bracket, 0 for no match.
MergeMatch(line) ==
    IF /\ Len(line) >= 3
       /\ line[1] = "Merge "
       /\ line[2] = "["
       /\ \E c \in 3..Len(line) : line[c] = "]"
    THEN LET c == CHOOSE c \in 3..Len(line) :
                      line[c] = "]" /\ \A d \in 3..(c - 1) : line[d] # "]"
         IN IF \A d \in 3..(c - 1) : line[d] # "[" THEN c ELSE 0
    ELSE 0

\* ast.literal_eval(merge_match.group(1)), line 577: the numbers of the list.
LiteralEval(toks) ==
    LET nums == SelectSeq(toks, IsNum)
    IN [n \in DOMAIN nums |-> NumOf(nums[n])]

\* line.split(': ')[-1].strip(), line 578: the text after the last ': '.
AfterLastColon(line) ==
    LET at == {n \in DOMAIN line : line[n] = ": "}
    IN IF at = {} THEN line
       ELSE SubSeq(line, (CHOOSE n \in at : \A m \in at : m <= n) + 1, Len(line))

\* Lines 571-580: the loop over the lines.
RECURSIVE ScanMerge(_, _)
ScanMerge(lines, result) ==
    IF lines = <<>> THEN result
    ELSE LET line == Head(lines)
             c == MergeMatch(line)
         IN ScanMerge(Tail(lines),
                IF c # 0
                THEN Append(result, [merge |-> LiteralEval(SubSeq(line, 3, c - 1)),
                                     merged_rule |-> AfterLastColon(line)])
                ELSE result)

\* if 'NO MERGE' in response: return []   (lines 568-569)
HasNoMerge(lines) == \E n \in DOMAIN lines : \E k \in DOMAIN lines[n] : lines[n][k] = "NO MERGE"

parse_merge(lines) == IF HasNoMerge(lines) THEN <<>> ELSE ScanMerge(lines, <<>>)

\* parse_merge is applied to the response.
ParseMerge ==
    /\ ~merge_suggestions.done
    /\ merge_suggestions' = [done |-> TRUE, value |-> parse_merge(merge_response)]
    /\ UNCHANGED <<merge_groups, merge_response>>
    /\ UNCHANGED <<mapperVars, clientVars, parserVars, synthVars, storeVars, sizeVars>>

\* Member lists: rule numbers in increasing order.
MemberLists ==
    {ns \in UNION {[1..n -> 1..MaxRule] : n \in 0..MaxMembers} :
        \A i, j \in DOMAIN ns : i < j => ns[i] < ns[j]}

MergeGroups == [merge : MemberLists, merged_rule : RuleTexts]

GroupLists == UNION {[1..n -> MergeGroups] : n \in 0..MaxGroups}

InitMerge ==
    /\ merge_groups \in GroupLists
    /\ merge_response \in {RenderMerge(merge_groups, header) : header \in BOOLEAN}
    /\ merge_suggestions = [done |-> FALSE, value |-> <<>>]

MergeStart ==
    InitMerge /\ MapperIdle /\ ClientIdle /\ ParserIdle /\ SynthIdle /\ StoreIdle /\ SizeIdle

NextMerge == ParseMerge

SpecMerge == MergeStart /\ [][NextMerge]_vars

----------------------------------------------------------------------------
(* Properties of the merge-suggestion parser.                              *)

\* C12 as stated: parse_merge of the rendering of any list of merge groups
\* returns the same groups in the same order, each with its member list and
\* its merged rule text; the NO MERGE sentinel gives the empty list.
C12_MergeRoundTrip ==
    merge_suggestions.done => merge_suggestions.value = merge_groups


----------------------------------------------------------------------------
(* Synthesis: synthesize_guideline_improvements, services.py lines 145-313.*)
(*                                                                         *)
(* One task is modelled.  A rule text is a sequence of tokens, as in the   *)
(* merge-suggestion parser.  A DataFrame is the sequence of its rows.      *)

\* Most records of one synthesis request.
MaxRecords == 3
\* The samples wanted per cluster (15 in the source, line 160), scaled down
\* so that MaxRecords records make more than one cluster.
PerCluster == 3

IntVal(i) == <<"int", i>>
FloatVal(i) == <<"float", i>>
TextVal(t) == <<"str", t>>
\* numpy.nan in a numeric column and in a text column
NaN == <<"nan", 0>>
NaNText == <<"nan", <<>>>>
\* A column the DataFrame does not have.
Missing == <<"missing", 0>>
MissingText == <<"missing", <<>>>>

Uid(i) == <<"uid", i>>

\* Python's None in the rule column: the new_edge_case_rule of a record
\* that parse_json_output scanned from a response without a rule line
\* (utils.py 462, 484), null in the request to synthesize.
NoneRule == <<"None">>

\* The guideline_improvement of the i-th record: the sentinel, its own
\* rule, or None.
Suggestions(i) == {<<"EMPTY">>, <<"when case", ToString(i), "-> label">>, NoneRule}

\* The annotation records of a request: uids differ.
SynthInputs ==
    UNION {{r \in [1..n -> [uid : {Uid(i) : i \in 1..n},
                            guideline_improvement : UNION {Suggestions(i) : i \in 1..n}]] :
                \A i \in 1..n : /\ r[i].uid = Uid(i)
                                /\ r[i].guideline_improvement \in Suggestions(i)}
           : n \in 1..MaxRecords}

\* df["guideline_improvement"].str.strip().str.upper() != "EMPTY", line 147:
\* .str gives NaN for None, and NaN != "EMPTY" is True.
Qualifies(r) == r.guideline_improvement # <<"EMPTY">>

\* Line 152: '->' not in s raises TypeError for a kept rule that is None.
DescriptionsRaise(rows) == \E i \in DOMAIN rows : rows[i].guideline_improvement = NoneRule

\* The row of the DataFrame for a record, its later columns not yet there.
Row(r) ==
    [uid |-> r.uid, guideline_improvement |-> r.guideline_improvement,
     cluster_id |-> 0, pca |-> FloatVal(0), edge_case_id |-> Missing,
     new_guideline_improvement |-> MissingText]

\* actual_n_clusters = data_size // 15 + 1, line 160
ActualNClusters(size) == size \div PerCluster + 1

\* Lines 192-203 with the loaded pair ignored: a pair is fitted every time.
SemanticModelsNotLoaded == FALSE

\* Lines 192-200: pca is loaded when its file opens; sc_kmeans when both do.
SemanticPcaLoaded == pca_cluster.exists
SemanticModelsLoaded == pca_cluster.exists /\ kmeans_cluster.exists

\* df[df["cluster_id"] == cluster_id]
ClusterRows(d, cluster_id) == SelectSeq(d, LAMBDA r : r.cluster_id = cluster_id)

\* Line 241: the rules of a cluster, numbered by their position.
NumberedRules(d, cluster_id) ==
    LET rows == ClusterRows(d, cluster_id)
    IN [n \in DOMAIN rows |-> rows[n].guideline_improvement]

\* The shortcut's record with a projection computed by a model.
ShortcutRecordProjected(r) ==
    [uid |-> r.uid, edge_case_id |-> IntVal(0), pca |-> FloatVal(1),
     guideline_improvement |-> TextVal(r.guideline_improvement)]

\* Lines 164-187: the record of the single-rule shortcut.
ShortcutRecord(r) ==
    [uid |-> r.uid, edge_case_id |-> IntVal(0), pca |-> FloatVal(0),
     guideline_improvement |-> TextVal(r.guideline_improvement)]

\* The embedding provider (line 153) returns or raises.
SynthOutcomes == {"embedding_error", "ok"}

\* Line 148-149: no qualifying record, return {}, [].
SynthBeginEmpty(records) ==
    /\ synth_pc = "idle"
    /\ SelectSeq(records, Qualifies) = <<>>
    /\ synth_input' = records
    /\ df' = <<>>
    /\ synth_pc' = "returned"
    /\ synth_ret' = [NoSynthRet EXCEPT !.shape = "tuple"]
    /\ UNCHANGED <<pca_cluster, kmeans_cluster, all_messages, new_rules>>
    /\ UNCHANGED <<mapperVars, clientVars, parserVars, mergeVars, storeVars, sizeVars>>

\* Lines 147-187 with one qualifying record: no clustering.  Line 152
\* raises for a rule that is None, line 153 when the provider does.
SynthBeginOne(records, outcome) ==
    /\ synth_pc = "idle"
    /\ Len(SelectSeq(records, Qualifies)) = 1
    /\ synth_input' = records
    /\ LET r == SelectSeq(records, Qualifies)[1]
       IN IF DescriptionsRaise(<<r>>)
          THEN /\ synth_pc' = "raised"
               /\ df' = <<Row(r)>>
               /\ synth_ret' = [NoSynthRet EXCEPT !.error = "TypeError"]
          ELSE IF outcome = "embedding_error"
          THEN /\ synth_pc' = "raised"
               /\ df' = <<Row(r)>>
               /\ synth_ret' = [NoSynthRet EXCEPT !.error = "provider"]
          ELSE /\ synth_pc' = "returned"
               /\ df' = <<[Row(r) EXCEPT !.cluster_id = 0, !.pca = FloatVal(0)]>>
               /\ synth_ret' = [NoSynthRet EXCEPT
                                  !.shape = "tuple",
                                  !.suggestions = <<r.guideline_improvement>>,
                                  !.improvement_clusters = <<ShortcutRecord(r)>>]
    /\ UNCHANGED <<pca_cluster, kmeans_cluster, all_messages, new_rules>>
    /\ UNCHANGED <<mapperVars, clientVars, parserVars, mergeVars, storeVars, sizeVars>>

\* Lines 147-248 with two or more qualifying records: the semantic models are
\* loaded, or fitted and saved; every row gets its cluster label and its
\* projection; one prompt per cluster is composed and the completions are
\* requested (line 248).
SynthBeginMany(records, outcome, labels) ==
    /\ synth_pc = "idle"
    /\ Len(SelectSeq(records, Qualifies)) >= 2
    /\ synth_input' = records
    /\ LET rows == SelectSeq(records, Qualifies)
           n == Len(rows)
           k == ActualNClusters(n)
           fit == ~SemanticModelsLoaded
           kmodel == IF fit THEN k ELSE kmeans_cluster.data.k
           d == [i \in 1..n |-> [Row(rows[i]) EXCEPT !.cluster_id = labels[i],
                                                      !.pca = FloatVal(1)]]
       IN IF DescriptionsRaise(rows)
          THEN /\ synth_pc' = "raised"
               /\ labels = [i \in 1..n |-> 0]
               /\ df' = [i \in 1..n |-> Row(rows[i])]
               /\ synth_ret' = [NoSynthRet EXCEPT !.error = "TypeError"]
               /\ UNCHANGED <<pca_cluster, kmeans_cluster, all_messages>>
          ELSE IF outcome = "embedding_error"
          THEN /\ synth_pc' = "raised"
               /\ labels = [i \in 1..n |-> 0]
               /\ df' = [i \in 1..n |-> Row(rows[i])]
               /\ synth_ret' = [NoSynthRet EXCEPT !.error = "provider"]
               /\ UNCHANGED <<pca_cluster, kmeans_cluster, all_messages>>
          ELSE /\ labels \in [1..n -> 0..(kmodel - 1)]
               /\ IF fit
                  THEN /\ pca_cluster' = FileOf([k |-> k])
                       /\ kmeans_cluster' = FileOf([k |-> k])
                  ELSE UNCHANGED <<pca_cluster, kmeans_cluster>>
               /\ df' = d
               /\ all_messages' = [c \in 1..k |-> NumberedRules(d, c - 1)]
               /\ synth_pc' = "aggregate"
               /\ synth_ret' = [NoSynthRet EXCEPT !.loaded = SemanticPcaLoaded,
                                                  !.fitted = fit,
                                                  !.wrote = fit,
                                                  !.requests = k]
    /\ UNCHANGED new_rules
    /\ UNCHANGED <<mapperVars, clientVars, parserVars, mergeVars, storeVars, sizeVars>>

\* The category descriptions and rule-number lists of aggregation responses.
CategoryTexts == {<<"when x -> y">>, <<"when z -> w">>}

\* The rule numbers of a category: json.loads (utils.py 526) and the
\* \d+ scan (line 555) both take any number written, 0 with them.
IdLists == {<<>>, <<0>>, <<1>>, <<2>>, <<1, 2>>}

Categories == [category_description : CategoryTexts, edge_cases : IdLists]

\* What parse_aggregation returns for a cluster's response: no category, one,
\* or two, with different descriptions or with the same one.
CategoryLists ==
    {<<>>} \cup {<<c>> : c \in Categories}
           \cup {<<c, e>> : c \in {x \in Categories : /\ x.category_description = <<"when x -> y">>
                                                      /\ x.edge_cases \in {<<1>>, <<1, 2>>}},
                            e \in {x \in Categories : x.edge_cases \in {<<1>>, <<2>>}}}

\* rows.iloc[i - 1] (line 256): a position from 0 counts from the first
\* row, a negative one from the last; one outside both raises IndexError.
IlocRaises(rows, i) == i - 1 >= Len(rows) \/ i - 1 < 0 - Len(rows)

Iloc(rows, i) == IF i - 1 >= 0 THEN rows[i] ELSE rows[Len(rows) + i]

\* Line 256: [rows.iloc[i-1]['uid'] for i in ids if i <= len(rows)]
UidsOfIds(rows, ids) ==
    LET kept == SelectSeq(ids, LAMBDA i : i <= Len(rows))
    IN [n \in DOMAIN kept |-> Iloc(rows, kept[n]).uid]

\* Line 256 raises: a kept number has no row.
UidsOfIdsRaises(rows, ids) ==
    \E n \in DOMAIN ids : ids[n] <= Len(rows) /\ IlocRaises(rows, ids[n])

\* Lines 249-260 raise: some category of some cluster does.
AggregateRaises(d, summaries) ==
    \E c \in DOMAIN summaries : \E j \in DOMAIN summaries[c] :
        UidsOfIdsRaises(ClusterRows(d, c - 1), summaries[c][j].edge_cases)

\* Lines 257-260 and 279-282 without the test of the key: every occurrence
\* makes an item of its own.
DictAppend(od, key, uids) == Append(od, [rule |-> key, uids |-> uids])

\* Lines 257-260 and 279-282 on an OrderedDict kept as the sequence of its
\* items: extend the list of a key that is there, else add the key last.
DictExtend(od, key, uids) ==
    IF \E n \in DOMAIN od : od[n].rule = key
    THEN [n \in DOMAIN od |->
            IF od[n].rule = key THEN [od[n] EXCEPT !.uids = od[n].uids \o uids] ELSE od[n]]
    ELSE Append(od, [rule |-> key, uids |-> uids])

\* Lines 251-260: the categories of one cluster's response.
RECURSIVE AddCategories(_, _, _)
AddCategories(od, rows, categories) ==
    IF categories = <<>> THEN od
    ELSE AddCategories(DictExtend(od, Head(categories).category_description,
                                  UidsOfIds(rows, Head(categories).edge_cases)),
                       rows, Tail(categories))

\* Lines 249-260: the loop over the summaries, from cluster c on.
RECURSIVE Aggregate(_, _, _, _)
Aggregate(od, d, summaries, c) ==
    IF c > Len(summaries) THEN od
    ELSE Aggregate(AddCategories(od, ClusterRows(d, c - 1), summaries[c]),
                   d, summaries, c + 1)

\* Lines 274-278 with the rule's position counted from 0 (i in place of i + 1).
MergedKeyFromZero(i, rule, suggestions) ==
    LET hits == {n \in DOMAIN suggestions : (i - 1) \in Range(suggestions[n].merge)}
    IN IF hits = {} THEN rule ELSE suggestions[SetMin(hits)].merged_rule

\* Lines 274-278: the key of the i-th rule (from 1): the merged rule of the
\* first suggestion that lists i, else its own.
MergedKey(i, rule, suggestions) ==
    LET hits == {n \in DOMAIN suggestions : i \in Range(suggestions[n].merge)}
    IN IF hits = {} THEN rule ELSE suggestions[SetMin(hits)].merged_rule

\* Lines 271-283 with line 280 an assignment: the members of the category
\* that comes later under a key replace those already there.
RECURSIVE MergeRulesOverwrite(_, _, _, _)
MergeRulesOverwrite(merged, rules, suggestions, i) ==
    IF i > Len(rules) THEN merged
    ELSE LET key == MergedKey(i, rules[i].rule, suggestions)
             at == {n \in DOMAIN merged : merged[n].rule = key}
         IN MergeRulesOverwrite(
                IF at = {} THEN Append(merged, [rule |-> key, uids |-> rules[i].uids])
                ELSE [n \in DOMAIN merged |->
                        IF n \in at THEN [merged[n] EXCEPT !.uids = rules[i].uids]
                        ELSE merged[n]],
                rules, suggestions, i + 1)

\* Lines 271-283: merged_rules
RECURSIVE MergeRules(_, _, _, _)
MergeRules(merged, rules, suggestions, i) ==
    IF i > Len(rules) THEN merged
    ELSE MergeRules(DictExtend(merged, MergedKey(i, rules[i].rule, suggestions),
                               rules[i].uids),
                    rules, suggestions, i + 1)

\* Lines 286-289: the categories that list a uid, by position from 1.
CategoriesOf(merged, uid) == {i \in DOMAIN merged : uid \in Range(merged[i].uids)}

SetMax(S) == CHOOSE x \in S : \A y \in S : y <= x

\* Lines 285-289 with the loops run so that the first category to list a
\* uid keeps it.
ResultRecordsFirstWins(d, merged) ==
    LET assigned == \E i \in DOMAIN d : CategoriesOf(merged, d[i].uid) # {}
    IN [i \in DOMAIN d |->
          LET cats == CategoriesOf(merged, d[i].uid)
          IN [uid |-> d[i].uid,
              pca |-> d[i].pca,
              edge_case_id |->
                  IF ~assigned THEN Missing
                  ELSE IF cats = {} THEN NaN
                  ELSE IntVal(SetMin(cats) - 1),
              guideline_improvement |->
                  IF ~assigned THEN MissingText
                  ELSE IF cats = {} THEN NaNText
                  ELSE TextVal(merged[SetMin(cats)].rule)]]

\* Lines 285-289 with the categories counted from 1.
ResultRecordsFromOne(d, merged) ==
    LET assigned == \E i \in DOMAIN d : CategoriesOf(merged, d[i].uid) # {}
    IN [i \in DOMAIN d |->
          LET cats == CategoriesOf(merged, d[i].uid)
          IN [uid |-> d[i].uid,
              pca |-> d[i].pca,
              edge_case_id |->
                  IF ~assigned THEN Missing
                  ELSE IF cats = {} THEN NaN
                  ELSE IntVal(SetMax(cats)),
              guideline_improvement |->
                  IF ~assigned THEN MissingText
                  ELSE IF cats = {} THEN NaNText
                  ELSE TextVal(merged[SetMax(cats)].rule)]]

\* Lines 285-308: every listed uid's rows get the id and the text of the
\* category (the last one to list it); the columns exist once a row was
\* set, and the other rows then hold NaN.  The records carry the new text
\* under guideline_improvement (lines 296-297).
ResultRecords(d, merged) ==
    LET assigned == \E i \in DOMAIN d : CategoriesOf(merged, d[i].uid) # {}
    IN [i \in DOMAIN d |->
          LET cats == CategoriesOf(merged, d[i].uid)
          IN [uid |-> d[i].uid,
              pca |-> d[i].pca,
              edge_case_id |->
                  IF ~assigned THEN Missing
                  ELSE IF cats = {} THEN NaN
                  ELSE IntVal(SetMax(cats) - 1),
              guideline_improvement |->
                  IF ~assigned THEN MissingText
                  ELSE IF cats = {} THEN NaNText
                  ELSE TextVal(merged[SetMax(cats)].rule)]]

\* The keys of the returned dict, lines 310-313.
ResultKeys == {"suggestions", "improvement_clusters"}

\* Lines 285-313: cluster_summaries and the returned dict.
SynthResult(d, merged) ==
    [synth_ret EXCEPT !.shape = "dict",
                      !.suggestions = [i \in DOMAIN merged |-> merged[i].rule],
                      !.improvement_clusters = ResultRecords(d, merged),
                      !.merged_rules = merged]

\* Lines 249-270 without the test of line 262: the merge request is made
\* whatever the number of clusters.
SynthAggregateAlwaysMerge(summaries) ==
    /\ synth_pc = "aggregate"
    /\ Len(summaries) = Len(all_messages)
    /\ IF AggregateRaises(df, summaries)
       THEN /\ UNCHANGED new_rules
            /\ synth_pc' = "raised"
            /\ synth_ret' = [synth_ret EXCEPT !.summaries = summaries,
                                              !.error = "IndexError"]
       ELSE /\ new_rules' = Aggregate(<<>>, df, summaries, 1)
            /\ synth_pc' = "merge"
            /\ synth_ret' = [synth_ret EXCEPT !.requests = @ + 1,
                                              !.summaries = summaries]
    /\ UNCHANGED <<pca_cluster, kmeans_cluster, synth_input, df, all_messages>>
    /\ UNCHANGED <<mapperVars, clientVars, parserVars, mergeVars, storeVars, sizeVars>>

\* The summaries arrive (line 248) and lines 249-270 run: an IndexError of
\* line 256 ends the call.  With one cluster the rules are final and the
\* call returns; else the merge request is made.
SynthAggregate(summaries) ==
    /\ synth_pc = "aggregate"
    /\ Len(summaries) = Len(all_messages)
    /\ IF AggregateRaises(df, summaries)
       THEN /\ UNCHANGED new_rules
            /\ synth_pc' = "raised"
            /\ synth_ret' = [synth_ret EXCEPT !.summaries = summaries,
                                              !.error = "IndexError"]
       ELSE LET rules == Aggregate(<<>>, df, summaries, 1)
            IN /\ new_rules' = rules
               /\ IF Len(all_messages) = 1
                  THEN /\ synth_pc' = "returned"
                       /\ synth_ret' = [SynthResult(df, rules) EXCEPT !.summaries = summaries]
                  ELSE /\ synth_pc' = "merge"
                       /\ synth_ret' = [synth_ret EXCEPT !.requests = @ + 1,
                                                         !.summaries = summaries]
    /\ UNCHANGED <<pca_cluster, kmeans_cluster, synth_input, df, all_messages>>
    /\ UNCHANGED <<mapperVars, clientVars, parserVars, mergeVars, storeVars, sizeVars>>

\* The merge groups an LLM may answer with: none; one group (of two rules,
\* of one, of a number that may be no rule's, of a number written twice);
\* two groups that both list the second rule.
SynthMergeGroups ==
    {<<>>} \cup {<<[merge |-> m, merged_rule |-> t]>> :
                    m \in {<<1, 2>>, <<2>>, <<3>>, <<1, 1>>}, t \in RuleTexts}
           \cup {<<[merge |-> m, merged_rule |-> t], [merge |-> n, merged_rule |-> u]>> :
                    m \in {<<1, 2>>, <<2>>}, n \in {<<1, 2>>, <<2>>},
                    t \in RuleTexts, u \in CategoryTexts}

\* The merge response arrives (line 268), written from the groups g, and
\* lines 269-313 run.
SynthMerge(g) ==
    /\ synth_pc = "merge"
    /\ LET suggestions == parse_merge(RenderMerge(g, TRUE))
           merged == MergeRules(<<>>, new_rules, suggestions, 1)
       IN synth_ret' = [SynthResult(df, merged) EXCEPT !.merge_suggestions = suggestions]
    /\ synth_pc' = "returned"
    /\ UNCHANGED <<pca_cluster, kmeans_cluster, synth_input, df, all_messages, new_rules>>
    /\ UNCHANGED <<mapperVars, clientVars, parserVars, mergeVars, storeVars, sizeVars>>

\* A synthesis call starts.  The semantic model files of the task are absent,
\* or are the pair an earlier call fitted (with its number of clusters).
InitSynth ==
    /\ \E k \in 0..ActualNClusters(MaxRecords) :
          /\ pca_cluster = (IF k = 0 THEN [exists |-> FALSE, data |-> [k |-> 0]]
                            ELSE FileOf([k |-> k]))
          /\ kmeans_cluster = pca_cluster
    /\ synth_pc = "idle"
    /\ synth_input = <<>>
    /\ df = <<>>
    /\ all_messages = <<>>
    /\ new_rules = <<>>
    /\ synth_ret = NoSynthRet

SynthStart ==
    InitSynth /\ MapperIdle /\ ClientIdle /\ ParserIdle /\ MergeIdle /\ StoreIdle /\ SizeIdle

\* A request arrives with no qualifying record, with one, with more.
SynthEmptyCall ==
    /\ synth_pc = "idle"
    /\ \E records \in SynthInputs : SynthBeginEmpty(records)

SynthOneCall ==
    /\ synth_pc = "idle"
    /\ \E records \in SynthInputs, outcome \in SynthOutcomes : SynthBeginOne(records, outcome)

SynthManyCall ==
    /\ synth_pc = "idle"
    /\ \E records \in SynthInputs, outcome \in SynthOutcomes :
          \E labels \in [1..Len(SelectSeq(records, Qualifies)) ->
                            0..(ActualNClusters(MaxRecords) - 1)] :
              SynthBeginMany(records, outcome, labels)

\* The completions of the aggregation prompts arrive.
SummariesArrive ==
    /\ synth_pc = "aggregate"
    /\ \E summaries \in [1..Len(all_messages) -> CategoryLists] : SynthAggregate(summaries)

\* The completion of the merge prompt arrives.
MergeArrives ==
    /\ synth_pc = "merge"
    /\ \E g \in SynthMergeGroups : SynthMerge(g)

NextSynth ==
    \/ SynthEmptyCall
    \/ SynthOneCall
    \/ SynthManyCall
    \/ SummariesArrive
    \/ MergeArrives

SpecSynth == SynthStart /\ [][NextSynth]_vars

\* C40: annotate_one with a text the task's mapping does not hold, for a
\* task with a mapping and without a topical model pair, fails, and has by
\* then minted a uid and saved it in both tables.
C40_FailedCallHasSavedUid ==
    [][\A t \in Tasks :
          (/\ ret'.op = "one"
           /\ ret'.task = t
           /\ MappingExists(t)
           /\ ~TopicalModelsLoaded(t)
           /\ ret'.input[1] \notin DOMAIN example2uid[t].data)
          => /\ ret'.status = "error"
             /\ uuid_count' = uuid_count + 1
             /\ uid2example'[t].exists /\ example2uid'[t].exists
             /\ example2uid'[t].data = DictSet(example2uid[t].data, ret'.input[1], uuid_count')
             /\ uid2example'[t].data = DictSet(uid2example[t].data, uuid_count', ret'.input[1])
             /\ example2uid'[t] # example2uid[t]
             /\ uid2example'[t] # uid2example[t]]_vars

\* annotate_one has failed for want of a model, and has minted and saved.
C40_Witness ==
    /\ ret.op = "one"
    /\ ret.status = "error"
    /\ ~TopicalModelsLoaded(ret.task)
    /\ ret.minted # {}
    /\ ret.wrote
    /\ example2uid[ret.task].data[ret.input[1]] \in ret.minted

----------------------------------------------------------------------------
(* Properties of the synthesis.                                            *)

\* The records of the request that carry an edge-case rule.
Flagged == SelectSeq(synth_input, Qualifies)

\* The returned record of a uid.
ReturnedRecords(uid) ==
    {n \in DOMAIN synth_ret.improvement_clusters :
        synth_ret.improvement_clusters[n].uid = uid}

\* C13 as stated: when synthesis has returned, every flagged record's uid is
\* in exactly one category: its returned record carries a category id, and
\* no two final categories list the uid.
C13_EveryFlaggedInOneCategory ==
    synth_pc = "returned" =>
        \A i \in DOMAIN Flagged :
            /\ \E n \in ReturnedRecords(Flagged[i].uid) :
                  synth_ret.improvement_clusters[n].edge_case_id[1] = "int"
            /\ synth_ret.shape = "dict" =>
                  Cardinality(CategoriesOf(synth_ret.merged_rules, Flagged[i].uid)) = 1

\* C14 as stated: when synthesis has returned its result, every flagged
\* record has a non-null edge_case_id, or the result reports the records
\* dropped from coverage and their number.
C14_DroppedCoverageReported ==
    (synth_pc = "returned" /\ synth_ret.shape = "dict") =>
        \/ \A i \in DOMAIN Flagged :
              \E n \in ReturnedRecords(Flagged[i].uid) :
                  synth_ret.improvement_clusters[n].edge_case_id[1] = "int"
        \/ "dropped" \in ResultKeys

\* C15: a call with exactly one qualifying record never gets to the
\* clustering or to a completion request; it leaves both semantic model
\* files as they were, fits, loads and writes none; and when it returns it
\* returns the one category edge_case_0, described by that record's rule,
\* and the one record of that uid with category 0 and projection (0.0, 0.0).
C15_SingleRuleShortcut ==
    [][(synth_pc = "idle" /\ Len(SelectSeq(synth_input', Qualifies)) = 1) =>
          LET r == SelectSeq(synth_input', Qualifies)[1] IN
          /\ synth_pc' \in {"returned", "raised"}
          /\ UNCHANGED <<pca_cluster, kmeans_cluster>>
          /\ ~synth_ret'.fitted /\ ~synth_ret'.loaded /\ ~synth_ret'.wrote
          /\ synth_ret'.requests = 0
          /\ synth_pc' = "returned" =>
                /\ synth_ret'.suggestions = <<r.guideline_improvement>>
                /\ synth_ret'.improvement_clusters =
                      <<[uid |-> r.uid, edge_case_id |-> IntVal(0), pca |-> FloatVal(0),
                         guideline_improvement |-> TextVal(r.guideline_improvement)]>>
      ]_vars

\* The shortcut returned for a request of several records of which one
\* qualifies, with a semantic model persisted for the task.
C15_Witness ==
    /\ synth_pc = "returned"
    /\ Len(synth_input) >= 2
    /\ Len(Flagged) = 1
    /\ pca_cluster.exists
    /\ Len(synth_ret.suggestions) = 1

\* C19 as stated: no NaN is in a returned synthesis result: the edge_case_id
\* and the guideline_improvement of a record in no category are null.
C19_NoNonFiniteInResult ==
    synth_pc = "returned" =>
        \A n \in DOMAIN synth_ret.improvement_clusters :
            /\ synth_ret.improvement_clusters[n].edge_case_id # NaN
            /\ synth_ret.improvement_clusters[n].guideline_improvement # NaNText

----------------------------------------------------------------------------
(* Properties of the persisted models and tables under the handlers.       *)

\* C16: once both files of a task's topical model pair are persisted, no
\* annotate_batch or annotate_one call refits or overwrites them: every step
\* leaves the two files of such a task exactly as they were.
C16_PersistedModelNeverRefit ==
    [][\A t \in Tasks :
          (pca_model[t].exists /\ kmeans_model[t].exists)
              => /\ pca_model'[t] = pca_model[t]
                 /\ kmeans_model'[t] = kmeans_model[t]
      ]_vars

\* annotate_one returned a record: it used a pair an earlier batch had
\* persisted, and the pair has still been fitted once only.
C16_Witness ==
    /\ ret.op = "one"
    /\ ret.status = "ok"
    /\ pca_model[ret.task].exists
    /\ kmeans_model[ret.task].exists
    /\ pca_model[ret.task].data.fits = 1
    /\ kmeans_model[ret.task].data.fits = 1

C20_EntriesNeverDeletedOrChanged ==
    [][\A t \in Tasks :
          MappingExists(t) =>
              \A e \in DOMAIN example2uid[t].data :
                  LET u == example2uid[t].data[e]
                  IN /\ MappingExists(t)'
                     /\ e \in DOMAIN example2uid'[t].data
                     /\ example2uid'[t].data[e] = u
                     /\ u \in DOMAIN uid2example'[t].data
                     /\ uid2example'[t].data[u] = e
      ]_vars

\* A batch call rewrote the tables of a task that already held a text: it
\* added one entry and the tables hold two.
C20_Witness ==
    /\ ret.op = "batch"
    /\ ret.wrote
    /\ Cardinality(ret.minted) = 1
    /\ Cardinality(DOMAIN example2uid[ret.task].data) = 2
    /\ Cardinality(DOMAIN uid2example[ret.task].data) = 2

----------------------------------------------------------------------------
(* The handlers over damaged persisted state.  The two tables of a task    *)
(* are two files written one after the other (services.py lines 339-342,   *)
(* 349-352, 433-436) and so are the two model files (lines 127-130): a     *)
(* call interrupted between the two writes, or a file removed from the     *)
(* working directory, leaves one file of a pair without the other.         *)

\* Which files of a pair are on disk.
FilePairs == {"none", "first", "second", "both"}

\* The files of task t do not fit together: one table without the other, or
\* one model file without the other.
Inconsistent(t) ==
    \/ uid2example[t].exists # example2uid[t].exists
    \/ pca_model[t].exists # kmeans_model[t].exists

\* Task t1 saved text "A" under uid 1 and fitted its models once; of each
\* pair of files some are on disk and at least one pair is incomplete.
\* Task t2 has nothing on disk.
InitDamaged ==
    /\ \E tables \in FilePairs, models \in FilePairs :
          /\ uid2example = [t \in Tasks |->
                IF t = "t1" /\ tables \in {"first", "both"}
                THEN FileOf(DictSet(EmptyDict, 1, "A")) ELSE NoFile]
          /\ example2uid = [t \in Tasks |->
                IF t = "t1" /\ tables \in {"second", "both"}
                THEN FileOf(DictSet(EmptyDict, "A", 1)) ELSE NoFile]
          /\ pca_model = [t \in Tasks |->
                IF t = "t1" /\ models \in {"first", "both"}
                THEN FileOf([fits |-> 1]) ELSE NoModel]
          /\ kmeans_model = [t \in Tasks |->
                IF t = "t1" /\ models \in {"second", "both"}
                THEN FileOf([fits |-> 1]) ELSE NoModel]
    /\ Inconsistent("t1")
    /\ uuid_count = 1
    /\ ret = NoRet

DamagedStart == InitDamaged /\ ClientIdle /\ ParserIdle /\ RestIdle

NextDamaged ==
    \/ \E task \in Tasks, input \in ExampleLists, outcome \in BatchOutcomes :
          AnnotateBatch(task, input, outcome)
    \/ \E task \in Tasks, example \in Texts : AnnotateOneNoMapping(task, example)
    \/ \E task \in Tasks, example \in Texts, outcome \in BatchOutcomes :
          AnnotateOneMapped(task, example, outcome)

SpecDamaged == DamagedStart /\ [][NextDamaged]_vars

\* C18: a call for a task whose persisted files do not fit together (one
\* table without the other, one model file without the other) fails and
\* leaves every file of the task as it was: no table is replaced by one of
\* new uids and no model file is fitted over.
C18_DamagedStateNotOverwritten ==
    [][LET t == ret'.task
       IN Inconsistent(t) =>
            /\ ret'.status = "error"
            /\ uid2example'[t] = uid2example[t]
            /\ example2uid'[t] = example2uid[t]
            /\ pca_model'[t] = pca_model[t]
            /\ kmeans_model'[t] = kmeans_model[t]
      ]_vars

----------------------------------------------------------------------------
(* When the handlers write the mapping tables.                             *)

\* C21: with both tables of the task persisted, a handler call writes the
\* tables exactly when it drew a new uid: with every text already mapped the
\* two files stay as they were, and with a uid drawn both files hold the new
\* entries when the call ends, also when it ends in an error raised after
\* the mapping step (the embedding, the models or the completion request).
C21_WriteIffMinted ==
    [][LET t == ret'.task
       IN MappingExists(t) =>
            /\ ret'.wrote <=> ret'.minted # {}
            /\ ret'.minted = {} =>
                  /\ uid2example'[t] = uid2example[t]
                  /\ example2uid'[t] = example2uid[t]
            /\ \A u \in ret'.minted :
                  /\ u \in DOMAIN uid2example'[t].data
                  /\ u \notin DOMAIN uid2example[t].data
                  /\ example2uid'[t].data[uid2example'[t].data[u]] = u
                  /\ uid2example'[t].data[u] \notin DOMAIN example2uid[t].data
      ]_vars

\* A batch of two known texts came back without a write.
C21_Witness ==
    /\ ret.op = "batch"
    /\ ~ret.wrote
    /\ Len(ret.uids) = 2
    /\ ret.minted = {}

----------------------------------------------------------------------------
(* Properties of the clustering and merge steps of the synthesis.          *)

\* C26: once the per-cluster prompts are composed, every rule being
\* clustered is in the numbered list of exactly one prompt, whether the
\* semantic model was fitted by this call or loaded from an earlier one.
C26_EveryRuleInOneList ==
    synth_pc \in {"aggregate", "merge"} =>
        \A i \in DOMAIN df :
            Cardinality({c \in DOMAIN all_messages :
                            df[i].guideline_improvement \in Range(all_messages[c])}) = 1

\* C27: a synthesis call that finds both semantic model files leaves them as
\* they are and fits nothing; a call fits and writes a pair only when it
\* found none.
C27_SemanticModelReused ==
    [][/\ (synth_pc = "idle" /\ pca_cluster.exists /\ kmeans_cluster.exists)
            => /\ pca_cluster' = pca_cluster
               /\ kmeans_cluster' = kmeans_cluster
               /\ ~synth_ret'.fitted
               /\ ~synth_ret'.wrote
       /\ (pca_cluster' # pca_cluster \/ kmeans_cluster' # kmeans_cluster)
            => /\ synth_pc = "idle"
               /\ ~pca_cluster.exists
               /\ ~kmeans_cluster.exists
               /\ synth_ret'.fitted
      ]_vars

\* A call returned its categories having loaded the pair and fitted nothing.
C27_Witness ==
    /\ synth_pc = "returned"
    /\ synth_ret.shape = "dict"
    /\ synth_ret.loaded
    /\ ~synth_ret.fitted
    /\ pca_cluster.exists
    /\ kmeans_cluster.exists

\* The positions (from 1) of the pre-merge categories whose key after the
\* merge is key: the merged description of the first group that lists the
\* position, or the category's own description when no group lists it.
PositionsUnder(key) ==
    {i \in DOMAIN new_rules :
        LET groups == {n \in DOMAIN synth_ret.merge_suggestions :
                          i \in Range(synth_ret.merge_suggestions[n].merge)}
        IN IF groups = {}
           THEN new_rules[i].rule = key
           ELSE synth_ret.merge_suggestions[SetMin(groups)].merged_rule = key}

\* The member lists of the categories at the positions P, one after another
\* in the order of the positions.
RECURSIVE MembersOf(_)
MembersOf(P) ==
    IF P = {} THEN <<>>
    ELSE new_rules[SetMin(P)].uids \o MembersOf(P \ {SetMin(P)})

\* C29: after the merge every pre-merge category listed by a merge group has
\* its members under the group's merged description and every other one
\* under its own description; the members of a final category are the member
\* lists of its pre-merge categories one after another, nothing removed.
C29_MergeMovesMembers ==
    (synth_pc = "returned" /\ synth_ret.shape = "dict" /\ Len(all_messages) > 1) =>
        LET merged == synth_ret.merged_rules
        IN /\ \A i \in DOMAIN new_rules :
                 \E m \in DOMAIN merged : i \in PositionsUnder(merged[m].rule)
           /\ \A m \in DOMAIN merged :
                 /\ PositionsUnder(merged[m].rule) # {}
                 /\ merged[m].uids = MembersOf(PositionsUnder(merged[m].rule))
           /\ \A m, n \in DOMAIN merged : merged[m].rule = merged[n].rule => m = n

\* Two categories were merged into one that holds the members of both.
C29_Witness ==
    /\ synth_pc = "returned"
    /\ synth_ret.shape = "dict"
    /\ Len(new_rules) = 2
    /\ new_rules[1].uids # <<>>
    /\ new_rules[2].uids # <<>>
    /\ Len(synth_ret.merge_suggestions) = 1
    /\ Len(synth_ret.merged_rules) = 1
    /\ synth_ret.merged_rules[1].uids = new_rules[1].uids \o new_rules[2].uids

\* C30: the merge request is made exactly when more than one cluster was
\* processed; with one cluster the call makes the one aggregation request
\* only and its final categories are the per-cluster categories in order.
C30_MergeOnlyAcrossClusters ==
    /\ synth_pc = "merge" => Len(all_messages) > 1
    /\ (synth_pc = "returned" /\ synth_ret.shape = "dict") =>
          /\ Len(all_messages) > 1 => synth_ret.requests = Len(all_messages) + 1
          /\ Len(all_messages) = 1 =>
                /\ synth_ret.requests = 1
                /\ synth_ret.merge_suggestions = <<>>
                /\ synth_ret.merged_rules = new_rules
                /\ synth_ret.suggestions = [i \in DOMAIN new_rules |-> new_rules[i].rule]

\* A call with one cluster returned two categories without a merge request.
C30_Witness ==
    /\ synth_pc = "returned"
    /\ synth_ret.shape = "dict"
    /\ Len(all_messages) = 1
    /\ synth_ret.requests = 1
    /\ Len(synth_ret.merged_rules) = 2

----------------------------------------------------------------------------
(* Properties of the completion cache across passes and calls.             *)

\* What a pass over the batches from b on gets from the cache c alone: the
\* stored completions in input order, and whether any prompt misses (lines
\* 404-417).
RECURSIVE LoadedPass(_, _)
LoadedPass(c, b) ==
    IF b > Len(batched_msgs) THEN [answers |-> <<>>, misses |-> FALSE]
    ELSE LET p == PartitionBatch(batched_msgs[b], c, model, <<>>, <<>>, <<>>)
             later == LoadedPass(c, b + 1)
         IN [answers |-> p.cache_hit_responses \o later.answers,
             misses  |-> p.cache_miss_msgs # <<>> \/ later.misses]

\* C23: once the top-level call has returned, every prompt of the call is in
\* the cache under its (model, prompt) key, so the same call made again
\* finds every batch entirely loaded, sends nothing to the provider, and
\* returns the completions the first call returned.
C23_RepeatedCallServedFromCache ==
    pc = "returned" =>
        /\ \A i \in DOMAIN messages : InCache(cache, model, messages[i])
        /\ ~LoadedPass(cache, 1).misses
        /\ LoadedPass(cache, 1).answers = responses

\* C24: in a retry pass a batch is sent to the provider only if it has not
\* succeeded in any earlier pass; a batch that has succeeded is answered
\* from the cache alone.
C24_RetryOnlyFailedBatches ==
    /\ (pc = "gather" /\ retried) => batch_index \notin succeeded
    /\ \A b \in succeeded :
           \A i \in DOMAIN batched_msgs[b + 1] :
               InCache(cache, model, batched_msgs[b + 1][i])

\* A retry pass is asking the provider for a batch that failed, after another
\* batch of the call had succeeded and was loaded from the cache this pass.
C24_Witness ==
    /\ pc = "gather"
    /\ retried
    /\ succeeded # {}
    /\ batch_index > 0
    /\ Len(all_answers) = BatchSize

----------------------------------------------------------------------------
(* Properties of the aggregation and of the final numbering.               *)

\* The summaries of the running call have arrived.
Summarized == synth_ret.summaries # <<>>

\* The positions of new_rules that hold a description.
EntriesOf(rules, description) == {n \in DOMAIN rules : rules[n].rule = description}

\* C31: a listed rule number above the number of rules of its cluster adds
\* no uid and does not end the call; every other listed number i adds the
\* uid of the i-th rule (from 1) of that cluster's list, and no other uid
\* is added.
C31_ListedNumbersByPosition ==
    Summarized =>
        /\ synth_pc # "raised"
        /\ \A c \in DOMAIN synth_ret.summaries : \A j \in DOMAIN synth_ret.summaries[c] :
              LET rows == ClusterRows(df, c - 1)
                  cat == synth_ret.summaries[c][j]
                  at == EntriesOf(new_rules, cat.category_description)
              IN /\ at # {}
                 /\ \A n \in DOMAIN cat.edge_cases :
                       LET i == cat.edge_cases[n]
                       IN i <= Len(rows) =>
                             /\ i \in DOMAIN rows
                             /\ \A e \in at : rows[i].uid \in Range(new_rules[e].uids)
        /\ \A e \in DOMAIN new_rules : \A u \in Range(new_rules[e].uids) :
              \E c \in DOMAIN synth_ret.summaries : \E j \in DOMAIN synth_ret.summaries[c] :
                  LET rows == ClusterRows(df, c - 1)
                      cat == synth_ret.summaries[c][j]
                  IN /\ cat.category_description = new_rules[e].rule
                     /\ \E i \in Range(cat.edge_cases) :
                           i \in DOMAIN rows /\ rows[i].uid = u

\* The occurrences of a description in the summaries: cluster and place.
Occurrences(description) ==
    {o \in {<<c, j>> : c \in DOMAIN synth_ret.summaries, j \in 1..2} :
        /\ o[2] \in DOMAIN synth_ret.summaries[o[1]]
        /\ synth_ret.summaries[o[1]][o[2]].category_description = description}

Earlier(o, q) == o[1] < q[1] \/ (o[1] = q[1] /\ o[2] < q[2])

\* The uids an occurrence adds.
Contribution(o) ==
    UidsOfIds(ClusterRows(df, o[1] - 1), synth_ret.summaries[o[1]][o[2]].edge_cases)

\* C32: after the aggregation of a run every description returned, by one
\* cluster or by several, once or more often, is the key of one category;
\* the category's members are those of all its occurrences, and the keys
\* stand in the order in which each was seen first.
C32_SameDescriptionOneCategory ==
    (Summarized /\ synth_pc # "raised") =>
        /\ \A a, b \in DOMAIN new_rules : new_rules[a].rule = new_rules[b].rule => a = b
        /\ \A t \in CategoryTexts : (Occurrences(t) # {}) <=> (EntriesOf(new_rules, t) # {})
        /\ \A a, b \in DOMAIN new_rules :
              a < b => \E o \in Occurrences(new_rules[a].rule) :
                          \A q \in Occurrences(new_rules[b].rule) : Earlier(o, q)
        /\ \A e \in DOMAIN new_rules : \A i \in 1..MaxRecords :
              Cardinality({n \in DOMAIN new_rules[e].uids : new_rules[e].uids[n] = Uid(i)})
                = Cardinality({x \in {<<o, n>> : o \in Occurrences(new_rules[e].rule), n \in 1..2} :
                                 /\ x[2] \in DOMAIN Contribution(x[1])
                                 /\ Contribution(x[1])[x[2]] = Uid(i)})

\* One description came twice from the first cluster and once from the
\* second: one category holds the members of the three occurrences.
C32_Witness ==
    /\ Summarized
    /\ synth_pc = "merge"
    /\ Len(synth_ret.summaries) = 2
    /\ Cardinality(Occurrences(<<"when x -> y">>)) = 3
    /\ Len(new_rules) = 1
    /\ Len(new_rules[1].uids) >= 3

\* The call has returned the dict of lines 310-313.
ReturnedDict == synth_pc = "returned" /\ synth_ret.shape = "dict"

\* The final categories are numbered 0..K-1 in the order of the merged keys,
\* which differ, and suggestions holds edge_case_0 .. edge_case_{K-1}: the
\* (i+1)-th item of suggestions is the value under edge_case_i.
DenseIds ==
    /\ Len(synth_ret.suggestions) = Len(synth_ret.merged_rules)
    /\ \A i \in DOMAIN synth_ret.merged_rules :
          synth_ret.suggestions[i] = synth_ret.merged_rules[i].rule
    /\ \A a, b \in DOMAIN synth_ret.merged_rules :
          synth_ret.merged_rules[a].rule = synth_ret.merged_rules[b].rule => a = b

C38_IdsPointIntoSuggestions ==
    ReturnedDict =>
        \A n \in DOMAIN synth_ret.improvement_clusters :
            LET r == synth_ret.improvement_clusters[n]
            IN r.edge_case_id[1] = "int" =>
                  /\ 0 <= r.edge_case_id[2]
                  /\ r.edge_case_id[2] < Len(synth_ret.suggestions)
                  /\ r.guideline_improvement = TextVal(synth_ret.suggestions[r.edge_case_id[2] + 1])

\* After a merge: a record without an id beside one with the highest id,
\* which two categories list.
C38_Witness ==
    /\ ReturnedDict
    /\ synth_ret.requests = 3
    /\ \E n \in DOMAIN synth_ret.improvement_clusters :
          synth_ret.improvement_clusters[n].edge_case_id = NaN
    /\ \E n \in DOMAIN synth_ret.improvement_clusters :
          /\ synth_ret.improvement_clusters[n].edge_case_id = IntVal(Len(synth_ret.suggestions) - 1)
          /\ Cardinality(CategoriesOf(synth_ret.merged_rules,
                                       synth_ret.improvement_clusters[n].uid)) = 2

\* How often a uid stands in the member lists of an OrderedDict.
Count(od, u) ==
    Cardinality(UNION {{<<e, n>> : n \in {k \in DOMAIN od[e].uids : od[e].uids[k] = u}}
                       : e \in DOMAIN od})

\* The merge groups that list the i-th pre-merge category, by place.
GroupsListing(i) ==
    {g \in DOMAIN synth_ret.merge_suggestions :
        \E k \in DOMAIN synth_ret.merge_suggestions[g].merge :
            synth_ret.merge_suggestions[g].merge[k] = i}

\* C37: whatever the merge groups (overlapping, with a position twice,
\* with a position that is no category's), the merged categories hold every
\* uid as often as the pre-merge categories do; every pre-merge category is
\* under exactly one merged key, that of the first group that lists it
\* (its own when none does); and the merged categories are no more than the
\* pre-merge ones.
C37_MergeKeepsMembers ==
    (ReturnedDict /\ Len(all_messages) > 1) =>
        LET merged == synth_ret.merged_rules
        IN /\ \A i \in 1..MaxRecords : Count(merged, Uid(i)) = Count(new_rules, Uid(i))
           /\ \A i \in DOMAIN new_rules :
                 LET first == {g \in GroupsListing(i) : \A h \in GroupsListing(i) : g <= h}
                     key == IF first = {} THEN new_rules[i].rule
                            ELSE synth_ret.merge_suggestions[CHOOSE g \in first : TRUE].merged_rule
                 IN Cardinality({m \in DOMAIN merged : merged[m].rule = key}) = 1
           /\ Len(merged) <= Len(new_rules)
           /\ \A m \in DOMAIN merged :
                 \E i \in DOMAIN new_rules :
                     merged[m].rule \in {new_rules[i].rule}
                         \cup {synth_ret.merge_suggestions[g].merged_rule : g \in GroupsListing(i)}

\* Two groups list the second category, the first of them the first
\* category too: one merged category holds the members of both.
C37_Witness ==
    /\ ReturnedDict
    /\ Len(new_rules) = 2
    /\ new_rules[1].uids # <<>>
    /\ new_rules[2].uids # <<>>
    /\ Len(synth_ret.merge_suggestions) = 2
    /\ GroupsListing(2) = {1, 2}
    /\ GroupsListing(1) = {1}
    /\ synth_ret.merge_suggestions[1].merged_rule # synth_ret.merge_suggestions[2].merged_rule
    /\ Len(synth_ret.merged_rules) = 1
    /\ synth_ret.merged_rules[1].rule = synth_ret.merge_suggestions[1].merged_rule

\* C35: a record whose rule is null is dropped by the filter step like one
\* with the empty sentinel, and no synthesis call raises because of it.
C35_NullRuleIsFilteredOut ==
    /\ \A n \in DOMAIN df : df[n].guideline_improvement # NoneRule
    /\ synth_ret.error # "TypeError"

----------------------------------------------------------------------------
(* The parameters of a new semantic model, services.py lines 156-211.      *)

\* The largest number of rules a call clusters.
MaxRules == 60

\* The rules wanted per cluster, line 160.
SamplesPerCluster == 15

\* Line 160 with ten rules wanted per cluster.
ClustersPerTen(size) == size \div 10 + 1

\* actual_n_clusters = data_size // 15 + 1, line 160
actual_n_clusters(size) == size \div SamplesPerCluster + 1

\* Lines 205-210 with the limits themselves on the upper side of each test.
SizeBoundsStrict(size) ==
    IF size < 20 THEN [size_min |-> NoBound, size_max |-> NoBound]
    ELSE IF 20 <= size /\ size < 40 THEN [size_min |-> <<"int", 5>>, size_max |-> <<"int", 20>>]
    ELSE [size_min |-> <<"int", 10>>, size_max |-> <<"int", 20>>]

\* Lines 205-210: size_min, size_max
SizeBounds(size) ==
    IF size <= 20 THEN [size_min |-> NoBound, size_max |-> NoBound]
    ELSE IF 20 < size /\ size <= 40 THEN [size_min |-> <<"int", 5>>, size_max |-> <<"int", 20>>]
    ELSE [size_min |-> <<"int", 10>>, size_max |-> <<"int", 20>>]

\* Line 211: KMeansConstrained(n_clusters=actual_n_clusters, size_min=...,
\* size_max=...) for a call that loaded no model pair.
ConstructKMeans ==
    /\ ~fit_args.done
    /\ fit_args' = [done       |-> TRUE,
                    n_clusters |-> actual_n_clusters(data_size),
                    size_min   |-> SizeBounds(data_size).size_min,
                    size_max   |-> SizeBounds(data_size).size_max]
    /\ UNCHANGED data_size
    /\ UNCHANGED <<mapperVars, clientVars, parserVars, mergeVars, synthVars, storeVars>>

\* A call past the shortcut of line 163: two rules or more.
InitSizes ==
    /\ data_size \in 2..MaxRules
    /\ fit_args = NoFitArgs

SizesStart ==
    InitSizes /\ MapperIdle /\ ClientIdle /\ ParserIdle /\ MergeIdle /\ SynthIdle /\ StoreIdle

NextSizes == ConstructKMeans

SpecSizes == SizesStart /\ [][NextSizes]_vars

\* C28: a model fitted on N >= 2 rules is constructed with floor(N / 15) + 1
\* clusters and with size bounds that depend on N alone: none up to 20
\* rules, 5 to 20 per cluster from 21 to 40 rules, 10 to 20 per cluster
\* above 40.
C28_ClusterCountAndSizeBounds ==
    fit_args.done =>
        /\ data_size >= 2
        /\ fit_args.n_clusters = (data_size \div 15) + 1
        /\ data_size <= 20 =>
              fit_args.size_min = NoBound /\ fit_args.size_max = NoBound
        /\ (20 < data_size /\ data_size <= 40) =>
              fit_args.size_min = <<"int", 5>> /\ fit_args.size_max = <<"int", 20>>
        /\ data_size > 40 =>
              fit_args.size_min = <<"int", 10>> /\ fit_args.size_max = <<"int", 20>>

\* A model for 41 rules: three clusters of 10 to 20 rules.
C28_Witness ==
    /\ fit_args.done
    /\ data_size = 41
    /\ fit_args.n_clusters = 3
    /\ fit_args.size_min = <<"int", 10>>
    /\ fit_args.size_max = <<"int", 20>>

\* C36: the parameters of a size-constrained model can be met: with K
\* clusters, size_min and size_max for N > 20 rules,
\* K * size_min <= N <= K * size_max.
C36_BoundsSatisfiable ==
    (fit_args.done /\ data_size > 20) =>
        /\ fit_args.size_min # NoBound
        /\ fit_args.size_max # NoBound
        /\ fit_args.n_clusters * fit_args.size_min[2] <= data_size
        /\ data_size <= fit_args.n_clusters * fit_args.size_max[2]

\* A model for 45 rules, the first count with four clusters of at least
\* ten rules each.
C36_Witness ==
    /\ fit_args.done
    /\ data_size = 45
    /\ fit_args.n_clusters = 4
    /\ fit_args.n_clusters * fit_args.size_min[2] = 40

----------------------------------------------------------------------------
(* The models directory under the handler coroutines.  The handlers are    *)
(* coroutines of one event loop: a handler runs without interruption from  *)
(* one await to the next.  process_annotation_json runs lines 323-364,     *)
(* with cluster_texts_with_pca in them, before its first await (line 365); *)
(* synthesize_guideline_improvements runs lines 147-247 before its first   *)
(* await (line 248).  The embedding call in them is a blocking call of the *)
(* synchronous client (services.py line 18, utils.py line 609).            *)

\* Task ids are arbitrary strings (models.py lines 15, 34).  A string is
\* kept as the sequence of its pieces.
TaskIds == {<<"t">>, <<"t", "_cluster">>}

Coroutines == {1, 2, 3}

Ops == {"annotate_batch", "synthesize"}

\* The purpose of the model pair a handler works with.
Purpose(op) == IF op = "synthesize" THEN "semantic" ELSE "topical"

\* f'models/pca_model_{task_id}.pkl' (lines 112, 127, 415) and
\* f'models/pca_model_{task_id}_cluster.pkl' (lines 193, 224, 470)
PcaFile(task, op) ==
    <<"models/pca_model_">> \o task
        \o (IF op = "synthesize" THEN <<"_cluster">> ELSE <<>>) \o <<".pkl">>

\* f'models/kmeans_model_{task_id}.pkl' (lines 115, 129) and
\* f'models/kmeans_model_{task_id}_cluster.pkl' (lines 195, 226)
KmeansFile(task, op) ==
    <<"models/kmeans_model_">> \o task
        \o (IF op = "synthesize" THEN <<"_cluster">> ELSE <<>>) \o <<".pkl">>

ModelFiles ==
    {PcaFile(t, o) : t \in TaskIds, o \in Ops} \cup {KmeansFile(t, o) : t \in TaskIds, o \in Ops}

\* A file that is not there, and the pickle of a model: the (task, purpose)
\* it was fitted for and the coroutine that fitted it.
NoPickle == [exists |-> FALSE, task |-> <<>>, purpose |-> "none", call |-> 0]

Pickle(task, purpose, c) == [exists |-> TRUE, task |-> task, purpose |-> purpose, call |-> c]

\* A request not yet served.  For annotate_one: whether the parsed response
\* flags a new edge case, whether it has a rule, and the model that made
\* edge_case_pca_x / edge_case_pca_y (none: the two are None).
NoCall ==
    [pc |-> "idle", op |-> "none", task |-> <<>>, fitted |-> FALSE,
     pca |-> NoPickle, kmeans |-> NoPickle, overlap |-> FALSE,
     new_edge_case |-> FALSE, has_rule |-> FALSE, edge_case_pca |-> NoPickle]

\* Lines 120 and 203 with the test always taken.
PairNeverLoaded(task, op) == FALSE

\* Lines 112-120 and 192-203: both locals are set when both files open.
PairLoaded(task, op) ==
    models_dir[PcaFile(task, op)].exists /\ models_dir[KmeansFile(task, op)].exists

\* A handler from its start to its first await: the embeddings are fetched
\* (the provider returns or raises); the pair is loaded, or fitted and both
\* files written; the completion request is made.
LoadOrFit(c, op, task, outcome) ==
    /\ LET fit == outcome = "ok" /\ ~PairLoaded(task, op)
           mine == Pickle(task, Purpose(op), c)
       IN /\ models_dir' = IF fit
                           THEN [models_dir EXCEPT ![PcaFile(task, op)] = mine,
                                                   ![KmeansFile(task, op)] = mine]
                           ELSE models_dir
          /\ calls' = [calls EXCEPT ![c] =
                [NoCall EXCEPT
                 !.pc      = IF outcome = "ok" THEN "awaiting" ELSE "raised",
                 !.op      = op,
                 !.task    = task,
                 !.fitted  = fit,
                 !.pca     = IF outcome # "ok" THEN NoPickle
                             ELSE IF fit THEN mine ELSE models_dir[PcaFile(task, op)],
                 !.kmeans  = IF outcome # "ok" THEN NoPickle
                             ELSE IF fit THEN mine ELSE models_dir[KmeansFile(task, op)],
                 !.overlap = \E d \in Coroutines \ {c} : calls[d].pc = "awaiting"]]
    /\ UNCHANGED <<mapperVars, clientVars, parserVars, mergeVars, synthVars, sizeVars>>

\* process_annotation_json up to line 365
AnnotateBatchBegins(c, task, outcome) ==
    /\ calls[c].pc = "idle"
    /\ LoadOrFit(c, "annotate_batch", task, outcome)

\* synthesize_guideline_improvements (two rules or more) up to line 248
SynthesizeBegins(c, task, outcome) ==
    /\ calls[c].pc = "idle"
    /\ LoadOrFit(c, "synthesize", task, outcome)

\* process_annotation_one_json up to line 456: both topical files are
\* opened (lines 413-421, the names of lines 112 and 115); with one missing
\* a local stays None and line 447 or 452 raises.  Nothing is fitted.
AnnotateOneBegins(c, task, outcome) ==
    /\ calls[c].pc = "idle"
    /\ LET loaded == outcome = "ok" /\ PairLoaded(task, "annotate_one")
       IN calls' = [calls EXCEPT ![c] =
             [NoCall EXCEPT
              !.pc      = IF loaded THEN "awaiting" ELSE "raised",
              !.op      = "annotate_one",
              !.task    = task,
              !.pca     = IF loaded THEN models_dir[PcaFile(task, "annotate_one")] ELSE NoPickle,
              !.kmeans  = IF loaded THEN models_dir[KmeansFile(task, "annotate_one")] ELSE NoPickle,
              !.overlap = \E d \in Coroutines \ {c} : calls[d].pc = "awaiting"]]
    /\ UNCHANGED models_dir
    /\ UNCHANGED <<mapperVars, clientVars, parserVars, mergeVars, synthVars, sizeVars>>

\* Line 470: os.path.exists(f'models/pca_model_{task_id}_cluster.pkl')
ProjectorExists(task) == models_dir[PcaFile(task, "synthesize")].exists

\* process_annotation_one_json from line 456: the completion arrives and is
\* parsed; for a rule that is not None under a flag that is True the rule is
\* embedded (the provider returns or raises) and projected by the pickle of
\* line 471 when that file exists; else the projection is None.
AnnotateOneReturns(c, new_edge_case, has_rule, outcome) ==
    /\ calls[c].pc = "awaiting"
    /\ calls[c].op = "annotate_one"
    /\ LET wanted == has_rule /\ new_edge_case
           task == calls[c].task
       IN calls' = [calls EXCEPT ![c] =
             [calls[c] EXCEPT
              !.pc = IF wanted /\ outcome # "ok" THEN "raised" ELSE "done",
              !.new_edge_case = new_edge_case,
              !.has_rule = has_rule,
              !.edge_case_pca = IF wanted /\ outcome = "ok" /\ ProjectorExists(task)
                                THEN models_dir[PcaFile(task, "synthesize")]
                                ELSE NoPickle]]
    /\ UNCHANGED models_dir
    /\ UNCHANGED <<mapperVars, clientVars, parserVars, mergeVars, synthVars, sizeVars>>

\* The awaited completions of annotate_batch or synthesize arrive and the
\* handler runs to its end; it does not touch the models directory again.
HandlerReturns(c) ==
    /\ calls[c].pc = "awaiting"
    /\ calls[c].op # "annotate_one"
    /\ calls' = [calls EXCEPT ![c].pc = "done"]
    /\ UNCHANGED models_dir
    /\ UNCHANGED <<mapperVars, clientVars, parserVars, mergeVars, synthVars, sizeVars>>

\* An empty models directory and three requests not yet served.
InitStore ==
    /\ models_dir = [f \in ModelFiles |-> NoPickle]
    /\ calls = [c \in Coroutines |-> NoCall]

StoreStart ==
    InitStore /\ MapperIdle /\ ClientIdle /\ ParserIdle /\ MergeIdle /\ SynthIdle /\ SizeIdle

NextStore ==
    \/ \E c \in Coroutines, task \in TaskIds, outcome \in SynthOutcomes :
          AnnotateBatchBegins(c, task, outcome)
    \/ \E c \in Coroutines, task \in TaskIds, outcome \in SynthOutcomes :
          SynthesizeBegins(c, task, outcome)
    \/ \E c \in Coroutines, task \in TaskIds, outcome \in SynthOutcomes :
          AnnotateOneBegins(c, task, outcome)
    \/ \E c \in Coroutines, new_edge_case \in BOOLEAN, has_rule \in BOOLEAN,
           outcome \in SynthOutcomes :
          AnnotateOneReturns(c, new_edge_case, has_rule, outcome)
    \/ \E c \in Coroutines : HandlerReturns(c)

SpecStore == StoreStart /\ [][NextStore]_vars

\* C22: the model pair a handler works with is the pair of its own task and
\* purpose: what it loaded was fitted for that task and that purpose.
C22_PairBoundToTaskAndPurpose ==
    \A c \in Coroutines :
        calls[c].pc \in {"awaiting", "done"} =>
            /\ calls[c].pca.task = calls[c].task
            /\ calls[c].pca.purpose = Purpose(calls[c].op)
            /\ calls[c].kmeans.task = calls[c].task
            /\ calls[c].kmeans.purpose = Purpose(calls[c].op)

\* Two calls for the same task and purpose, both past their model step, one
\* of them started while the other was awaiting its completions.
Simultaneous(c, d) ==
    /\ c # d
    /\ calls[c].op = calls[d].op
    /\ calls[c].task = calls[d].task
    /\ calls[c].pc \in {"awaiting", "done"}
    /\ calls[d].pc \in {"awaiting", "done"}
    /\ (calls[c].overlap \/ calls[d].overlap)

SemanticProjectorPersisted(task) ==
    \E f \in ModelFiles :
        /\ models_dir[f].exists
        /\ models_dir[f].task = task
        /\ models_dir[f].purpose = "semantic"

\* C34: annotate_one gives its record an edge-case projection exactly when
\* the example is flagged as a new edge case, has a rule, and a semantic
\* projector is persisted for its task when the call returns; the
\* projection is then made by that projector; and no step of an annotate_one
\* call changes the models directory.
C34_ProjectionIffFlaggedAndPersisted ==
    [][\A c \in Coroutines :
          /\ (calls[c].op = "annotate_one" /\ calls[c].pc = "awaiting"
                 /\ calls'[c].pc = "done") =>
                /\ calls'[c].edge_case_pca.exists <=>
                      (/\ calls'[c].new_edge_case
                       /\ calls'[c].has_rule
                       /\ SemanticProjectorPersisted(calls[c].task))
                /\ calls'[c].edge_case_pca.exists =>
                      /\ calls'[c].edge_case_pca.task = calls[c].task
                      /\ calls'[c].edge_case_pca.purpose = "semantic"
          /\ (calls'[c].op = "annotate_one" /\ calls'[c] # calls[c]) =>
                models_dir' = models_dir]_vars


----------------------------------------------------------------------------
(* The identity mapping under two handler coroutines of the one event      *)
(* loop.  A handler reads the two tables into locals (services.py 325-329, *)
(* 424-427), adds to the locals and writes the files back (330-352,        *)
(* 429-438).  Another coroutine runs only while this one is suspended at   *)
(* an await; the first await of either handler is the completion request   *)
(* (lines 365, 456), after the tables are written.                         *)

Callers == {1, 2}

\* The tables a handler holds in its locals.
NoTables == [found |-> FALSE, uid2example |-> EmptyDict, example2uid |-> EmptyDict]

NoRequest ==
    [pc |-> "idle", op |-> "none", task |-> "t1", examples |-> <<>>, uids |-> <<>>,
     tables |-> NoTables, resolved |-> FALSE]

\* Lines 325-352 and 424-438 with an await between reading the tables and
\* writing them.
AwaitInUpdateAssumed == TRUE

\* Lines 325-352 and 424-438 hold no await: a handler that has read the
\* tables is not suspended before it has written them.
AwaitInUpdate == FALSE

\* The coroutine is at a point where the event loop may run another one.
Suspended(d) ==
    \/ calls[d].pc \in {"idle", "awaiting", "done", "raised"}
    \/ calls[d].pc = "loaded" /\ AwaitInUpdate

LoopFree(c) == \A d \in Callers \ {c} : Suspended(d)

\* Lines 325-329 and 424-427: the tables as the files hold them now.
LoadTables(task) ==
    [found |-> TRUE, uid2example |-> uid2example[task].data,
     example2uid |-> example2uid[task].data]

\* Lines 330-352 on the locals: the tables to persist, the uids of the
\* examples, the uuid4() count, and whether the files are written.
ResolveLoaded(tables, examples) ==
    IF tables.found
    THEN LET r == AssignNew(examples, tables.uid2example, tables.example2uid, uuid_count)
         IN [uid2example |-> r.uid2example,
             example2uid |-> r.example2uid,
             uids        |-> [i \in DOMAIN examples |-> r.example2uid[examples[i]]],
             count       |-> r.count,
             write       |-> r.count # uuid_count]
    ELSE LET uids == FreshUids(examples, uuid_count)
         IN [uid2example |-> ZipUid2Example(uids, examples),
             example2uid |-> ZipExample2Uid(uids, examples),
             uids        |-> uids,
             count       |-> uuid_count + Len(examples),
             write       |-> TRUE]

\* process_annotation_json, lines 323-329: the list is deduplicated and the
\* tables are read when both files exist.
BatchLoads(c, task, input) ==
    /\ calls[c].pc = "idle"
    /\ LoopFree(c)
    /\ \E examples \in DedupLists(input) :
          calls' = [calls EXCEPT ![c] =
             [NoRequest EXCEPT !.pc = "loaded", !.op = "annotate_batch", !.task = task,
                               !.examples = examples,
                               !.tables = IF MappingExists(task) THEN LoadTables(task)
                                          ELSE NoTables]]
    /\ UNCHANGED <<mapperVars, models_dir>>
    /\ UNCHANGED <<clientVars, parserVars, mergeVars, synthVars, sizeVars>>

\* process_annotation_json, lines 330-365: the uids are resolved on the
\* locals and the files written; cluster_texts_with_pca embeds (the provider
\* returns or raises) and loads or fits the topical pair; the completion
\* request is made.
BatchSaves(c, outcome) ==
    /\ calls[c].pc = "loaded"
    /\ calls[c].op = "annotate_batch"
    /\ LoopFree(c)
    /\ LET task == calls[c].task
           r == ResolveLoaded(calls[c].tables, calls[c].examples)
           fit == outcome = "ok" /\ ~TopicalModelsLoaded(task)
       IN /\ r.count <= MaxUid
          /\ uuid_count' = r.count
          /\ IF r.write
             THEN /\ uid2example' = [uid2example EXCEPT ![task] = FileOf(r.uid2example)]
                  /\ example2uid' = [example2uid EXCEPT ![task] = FileOf(r.example2uid)]
             ELSE UNCHANGED <<uid2example, example2uid>>
          /\ IF fit
             THEN /\ pca_model' = [pca_model EXCEPT ![task] = FileOf([fits |-> pca_model[task].data.fits + 1])]
                  /\ kmeans_model' = [kmeans_model EXCEPT ![task] = FileOf([fits |-> kmeans_model[task].data.fits + 1])]
             ELSE UNCHANGED <<pca_model, kmeans_model>>
          /\ calls' = [calls EXCEPT ![c] =
                [calls[c] EXCEPT !.pc = IF outcome = "ok" THEN "awaiting" ELSE "raised",
                                 !.uids = r.uids,
                                 !.resolved = TRUE]]
    /\ UNCHANGED <<ret, models_dir>>
    /\ UNCHANGED <<clientVars, parserVars, mergeVars, synthVars, sizeVars>>

\* process_annotation_one_json, lines 412-427: the model files are opened;
\* the tables are read, and a missing file raises FileNotFoundError.
OneLoads(c, task, example) ==
    /\ calls[c].pc = "idle"
    /\ LoopFree(c)
    /\ calls' = [calls EXCEPT ![c] =
          [NoRequest EXCEPT !.pc = IF MappingExists(task) THEN "loaded" ELSE "raised",
                            !.op = "annotate_one", !.task = task,
                            !.examples = <<example>>,
                            !.tables = IF MappingExists(task) THEN LoadTables(task)
                                       ELSE NoTables]]
    /\ UNCHANGED <<mapperVars, models_dir>>
    /\ UNCHANGED <<clientVars, parserVars, mergeVars, synthVars, sizeVars>>

\* process_annotation_one_json, lines 429-456: a text the locals do not hold
\* gets a uid and the files are written; the example is embedded (the
\* provider returns or raises) and lines 447-452 raise without the model
\* pair; the completion request is made.
OneSaves(c, outcome) ==
    /\ calls[c].pc = "loaded"
    /\ calls[c].op = "annotate_one"
    /\ LoopFree(c)
    /\ LET task == calls[c].task
           r == ResolveLoaded(calls[c].tables, calls[c].examples)
       IN /\ r.count <= MaxUid
          /\ uuid_count' = r.count
          /\ IF r.write
             THEN /\ uid2example' = [uid2example EXCEPT ![task] = FileOf(r.uid2example)]
                  /\ example2uid' = [example2uid EXCEPT ![task] = FileOf(r.example2uid)]
             ELSE UNCHANGED <<uid2example, example2uid>>
          /\ calls' = [calls EXCEPT ![c] =
                [calls[c] EXCEPT !.pc = IF outcome = "ok" /\ TopicalModelsLoaded(task)
                                        THEN "awaiting" ELSE "raised",
                                 !.uids = r.uids,
                                 !.resolved = TRUE]]
    /\ UNCHANGED <<pca_model, kmeans_model, ret, models_dir>>
    /\ UNCHANGED <<clientVars, parserVars, mergeVars, synthVars, sizeVars>>

\* The completions arrive (lines 365, 456) and the handler runs to its end,
\* or a later step raises; the tables are not touched again.
CallReturns(c, outcome) ==
    /\ calls[c].pc = "awaiting"
    /\ LoopFree(c)
    /\ calls' = [calls EXCEPT ![c].pc = IF outcome = "ok" THEN "done" ELSE "raised"]
    /\ UNCHANGED <<mapperVars, models_dir>>
    /\ UNCHANGED <<clientVars, parserVars, mergeVars, synthVars, sizeVars>>

\* A fresh deployment, or one in which an earlier round has saved the text
\* "A" and the models of task t1; two requests not yet served.
InitCalls ==
    /\ \E saved \in BOOLEAN :
          /\ uid2example = [t \in Tasks |-> IF saved /\ t = "t1"
                                            THEN FileOf(DictSet(EmptyDict, 1, "A")) ELSE NoFile]
          /\ example2uid = [t \in Tasks |-> IF saved /\ t = "t1"
                                            THEN FileOf(DictSet(EmptyDict, "A", 1)) ELSE NoFile]
          /\ pca_model = [t \in Tasks |-> IF saved /\ t = "t1"
                                          THEN FileOf([fits |-> 1]) ELSE NoModel]
          /\ kmeans_model = pca_model
          /\ uuid_count = (IF saved THEN 1 ELSE 0)
    /\ ret = NoRet
    /\ models_dir = <<>>
    /\ calls = [c \in Callers |-> NoRequest]

CallsStart ==
    InitCalls /\ ClientIdle /\ ParserIdle /\ MergeIdle /\ SynthIdle /\ SizeIdle

NextCalls ==
    \/ \E c \in Callers, task \in Tasks, input \in ExampleLists : BatchLoads(c, task, input)
    \/ \E c \in Callers, outcome \in SynthOutcomes : BatchSaves(c, outcome)
    \/ \E c \in Callers, task \in Tasks, example \in Texts : OneLoads(c, task, example)
    \/ \E c \in Callers, outcome \in SynthOutcomes : OneSaves(c, outcome)
    \/ \E c \in Callers, outcome \in {"late_error", "ok"} : CallReturns(c, outcome)

SpecCalls == CallsStart /\ [][NextCalls]_vars

\* C39: with two annotate_batch / annotate_one calls interleaved at their
\* awaits no uid assignment is lost: the persisted tables of a task hold
\* every text of every call that has resolved its uids, under the uid the
\* call works with, and the two tables are each other's inverse.
C39_NoAssignmentLost ==
    /\ \A c \in Callers :
          calls[c].resolved =>
              /\ MappingExists(calls[c].task)
              /\ \A i \in DOMAIN calls[c].examples :
                    LET e == calls[c].examples[i]
                        u == calls[c].uids[i]
                    IN /\ e \in DOMAIN example2uid[calls[c].task].data
                       /\ example2uid[calls[c].task].data[e] = u
                       /\ u \in DOMAIN uid2example[calls[c].task].data
                       /\ uid2example[calls[c].task].data[u] = e
    /\ \A t \in Tasks :
          MappingExists(t) =>
              /\ \A e \in DOMAIN example2uid[t].data :
                    /\ example2uid[t].data[e] \in DOMAIN uid2example[t].data
                    /\ uid2example[t].data[example2uid[t].data[e]] = e
              /\ \A u \in DOMAIN uid2example[t].data :
                    /\ uid2example[t].data[u] \in DOMAIN example2uid[t].data
                    /\ example2uid[t].data[uid2example[t].data[u]] = u

\* A batch call and an annotate_one call for the same task are both
\* awaiting their completions; each has minted the uid of a text of its own.
C39_Witness ==
    /\ calls[1].pc = "awaiting" /\ calls[1].op = "annotate_batch"
    /\ calls[2].pc = "awaiting" /\ calls[2].op = "annotate_one"
    /\ calls[1].task = calls[2].task
    /\ calls[1].examples = <<"A">>
    /\ calls[2].examples = <<"B">>
    /\ ~calls[1].tables.found
    /\ calls[1].uids # calls[2].uids
    /\ DOMAIN example2uid[calls[1].task].data = {"A", "B"}

============================================================================
